---------------------------- MODULE Spec2Model ----------------------------
(***************************************************************************)
(* A model of the curation pipeline of hndigest:                           *)
(*   - select_stories          (src/hndigest/hn.py)                        *)
(*   - process_stories         (src/hn_digest/process.py)                  *)
(*   - post_thread             (src/hndigest/telegram.py,                  *)
(*                              src/hn_digest/telegram.py)                 *)
(* Text is a sequence of one-character strings, so that the string         *)
(* operations of the code (strip, split, lower, startswith, replace) are   *)
(* computed, not assumed.                                                  *)
(***************************************************************************)
EXTENDS Integers, Sequences, FiniteSets, TLC

(***************************************************************************)
(* Bounds of the model.                                                    *)
(***************************************************************************)
\* longest story list handed to select_stories
MaxList == 4
\* largest value of `limit` handed to select_stories
MaxLimit == 5
\* longest message list handed to post_thread
MaxMsgs == 4
\* largest batch of stories handed to process_stories
MaxBatch == 2
\* calls of process_stories in one behaviour
MaxCalls == 2

(***************************************************************************)
(* Python str operations on sequences of characters.                       *)
(***************************************************************************)
\* the characters str.strip() and int() take for whitespace (str.isspace):
\* space, tab, LF, CR, form feed, and, written by their code points, vertical
\* tab, the separators 1C-1F, NEL, the no-break space and the Unicode spaces
Whitespace ==
  {" ", "\t", "\n", "\r", "\f", "x0b", "x1c", "x1d", "x1e", "x1f", "x85", "nbsp",
   "u1680", "u2000", "u2001", "u2002", "u2003", "u2004", "u2005", "u2006",
   "u2007", "u2008", "u2009", "u200a", "u2028", "u2029", "u202f", "u205f",
   "u3000"}

Digits == {"0", "1", "2", "3", "4", "5", "6", "7", "8", "9"}

QuoteChars == {"\"", "'"}

\* A character outside ASCII is written as the letter u and its code point in
\* hexadecimal ("u0661" is ARABIC-INDIC DIGIT ONE).  The tables below are
\* those of the Unicode database of the interpreter (14.0).
\* the decimal digits outside ASCII (category Nd) by code point: every ten
\* of them are the digits 0 to 9 of one script
DecimalDigitSeq ==
  <<"u0660", "u0661", "u0662", "u0663", "u0664", "u0665", "u0666", "u0667", "u0668",
   "u0669", "u06f0", "u06f1", "u06f2", "u06f3", "u06f4", "u06f5", "u06f6", "u06f7",
   "u06f8", "u06f9", "u07c0", "u07c1", "u07c2", "u07c3", "u07c4", "u07c5", "u07c6",
   "u07c7", "u07c8", "u07c9", "u0966", "u0967", "u0968", "u0969", "u096a", "u096b",
   "u096c", "u096d", "u096e", "u096f", "u09e6", "u09e7", "u09e8", "u09e9", "u09ea",
   "u09eb", "u09ec", "u09ed", "u09ee", "u09ef", "u0a66", "u0a67", "u0a68", "u0a69",
   "u0a6a", "u0a6b", "u0a6c", "u0a6d", "u0a6e", "u0a6f", "u0ae6", "u0ae7", "u0ae8",
   "u0ae9", "u0aea", "u0aeb", "u0aec", "u0aed", "u0aee", "u0aef", "u0b66", "u0b67",
   "u0b68", "u0b69", "u0b6a", "u0b6b", "u0b6c", "u0b6d", "u0b6e", "u0b6f", "u0be6",
   "u0be7", "u0be8", "u0be9", "u0bea", "u0beb", "u0bec", "u0bed", "u0bee", "u0bef",
   "u0c66", "u0c67", "u0c68", "u0c69", "u0c6a", "u0c6b", "u0c6c", "u0c6d", "u0c6e",
   "u0c6f", "u0ce6", "u0ce7", "u0ce8", "u0ce9", "u0cea", "u0ceb", "u0cec", "u0ced",
   "u0cee", "u0cef", "u0d66", "u0d67", "u0d68", "u0d69", "u0d6a", "u0d6b", "u0d6c",
   "u0d6d", "u0d6e", "u0d6f", "u0de6", "u0de7", "u0de8", "u0de9", "u0dea", "u0deb",
   "u0dec", "u0ded", "u0dee", "u0def", "u0e50", "u0e51", "u0e52", "u0e53", "u0e54",
   "u0e55", "u0e56", "u0e57", "u0e58", "u0e59", "u0ed0", "u0ed1", "u0ed2", "u0ed3",
   "u0ed4", "u0ed5", "u0ed6", "u0ed7", "u0ed8", "u0ed9", "u0f20", "u0f21", "u0f22",
   "u0f23", "u0f24", "u0f25", "u0f26", "u0f27", "u0f28", "u0f29", "u1040", "u1041",
   "u1042", "u1043", "u1044", "u1045", "u1046", "u1047", "u1048", "u1049", "u1090",
   "u1091", "u1092", "u1093", "u1094", "u1095", "u1096", "u1097", "u1098", "u1099",
   "u17e0", "u17e1", "u17e2", "u17e3", "u17e4", "u17e5", "u17e6", "u17e7", "u17e8",
   "u17e9", "u1810", "u1811", "u1812", "u1813", "u1814", "u1815", "u1816", "u1817",
   "u1818", "u1819", "u1946", "u1947", "u1948", "u1949", "u194a", "u194b", "u194c",
   "u194d", "u194e", "u194f", "u19d0", "u19d1", "u19d2", "u19d3", "u19d4", "u19d5",
   "u19d6", "u19d7", "u19d8", "u19d9", "u1a80", "u1a81", "u1a82", "u1a83", "u1a84",
   "u1a85", "u1a86", "u1a87", "u1a88", "u1a89", "u1a90", "u1a91", "u1a92", "u1a93",
   "u1a94", "u1a95", "u1a96", "u1a97", "u1a98", "u1a99", "u1b50", "u1b51", "u1b52",
   "u1b53", "u1b54", "u1b55", "u1b56", "u1b57", "u1b58", "u1b59", "u1bb0", "u1bb1",
   "u1bb2", "u1bb3", "u1bb4", "u1bb5", "u1bb6", "u1bb7", "u1bb8", "u1bb9", "u1c40",
   "u1c41", "u1c42", "u1c43", "u1c44", "u1c45", "u1c46", "u1c47", "u1c48", "u1c49",
   "u1c50", "u1c51", "u1c52", "u1c53", "u1c54", "u1c55", "u1c56", "u1c57", "u1c58",
   "u1c59", "ua620", "ua621", "ua622", "ua623", "ua624", "ua625", "ua626", "ua627",
   "ua628", "ua629", "ua8d0", "ua8d1", "ua8d2", "ua8d3", "ua8d4", "ua8d5", "ua8d6",
   "ua8d7", "ua8d8", "ua8d9", "ua900", "ua901", "ua902", "ua903", "ua904", "ua905",
   "ua906", "ua907", "ua908", "ua909", "ua9d0", "ua9d1", "ua9d2", "ua9d3", "ua9d4",
   "ua9d5", "ua9d6", "ua9d7", "ua9d8", "ua9d9", "ua9f0", "ua9f1", "ua9f2", "ua9f3",
   "ua9f4", "ua9f5", "ua9f6", "ua9f7", "ua9f8", "ua9f9", "uaa50", "uaa51", "uaa52",
   "uaa53", "uaa54", "uaa55", "uaa56", "uaa57", "uaa58", "uaa59", "uabf0", "uabf1",
   "uabf2", "uabf3", "uabf4", "uabf5", "uabf6", "uabf7", "uabf8", "uabf9", "uff10",
   "uff11", "uff12", "uff13", "uff14", "uff15", "uff16", "uff17", "uff18", "uff19",
   "u104a0", "u104a1", "u104a2", "u104a3", "u104a4", "u104a5", "u104a6", "u104a7",
   "u104a8", "u104a9", "u10d30", "u10d31", "u10d32", "u10d33", "u10d34", "u10d35",
   "u10d36", "u10d37", "u10d38", "u10d39", "u11066", "u11067", "u11068", "u11069",
   "u1106a", "u1106b", "u1106c", "u1106d", "u1106e", "u1106f", "u110f0", "u110f1",
   "u110f2", "u110f3", "u110f4", "u110f5", "u110f6", "u110f7", "u110f8", "u110f9",
   "u11136", "u11137", "u11138", "u11139", "u1113a", "u1113b", "u1113c", "u1113d",
   "u1113e", "u1113f", "u111d0", "u111d1", "u111d2", "u111d3", "u111d4", "u111d5",
   "u111d6", "u111d7", "u111d8", "u111d9", "u112f0", "u112f1", "u112f2", "u112f3",
   "u112f4", "u112f5", "u112f6", "u112f7", "u112f8", "u112f9", "u11450", "u11451",
   "u11452", "u11453", "u11454", "u11455", "u11456", "u11457", "u11458", "u11459",
   "u114d0", "u114d1", "u114d2", "u114d3", "u114d4", "u114d5", "u114d6", "u114d7",
   "u114d8", "u114d9", "u11650", "u11651", "u11652", "u11653", "u11654", "u11655",
   "u11656", "u11657", "u11658", "u11659", "u116c0", "u116c1", "u116c2", "u116c3",
   "u116c4", "u116c5", "u116c6", "u116c7", "u116c8", "u116c9", "u11730", "u11731",
   "u11732", "u11733", "u11734", "u11735", "u11736", "u11737", "u11738", "u11739",
   "u118e0", "u118e1", "u118e2", "u118e3", "u118e4", "u118e5", "u118e6", "u118e7",
   "u118e8", "u118e9", "u11950", "u11951", "u11952", "u11953", "u11954", "u11955",
   "u11956", "u11957", "u11958", "u11959", "u11c50", "u11c51", "u11c52", "u11c53",
   "u11c54", "u11c55", "u11c56", "u11c57", "u11c58", "u11c59", "u11d50", "u11d51",
   "u11d52", "u11d53", "u11d54", "u11d55", "u11d56", "u11d57", "u11d58", "u11d59",
   "u11da0", "u11da1", "u11da2", "u11da3", "u11da4", "u11da5", "u11da6", "u11da7",
   "u11da8", "u11da9", "u16a60", "u16a61", "u16a62", "u16a63", "u16a64", "u16a65",
   "u16a66", "u16a67", "u16a68", "u16a69", "u16ac0", "u16ac1", "u16ac2", "u16ac3",
   "u16ac4", "u16ac5", "u16ac6", "u16ac7", "u16ac8", "u16ac9", "u16b50", "u16b51",
   "u16b52", "u16b53", "u16b54", "u16b55", "u16b56", "u16b57", "u16b58", "u16b59",
   "u1d7ce", "u1d7cf", "u1d7d0", "u1d7d1", "u1d7d2", "u1d7d3", "u1d7d4", "u1d7d5",
   "u1d7d6", "u1d7d7", "u1d7d8", "u1d7d9", "u1d7da", "u1d7db", "u1d7dc", "u1d7dd",
   "u1d7de", "u1d7df", "u1d7e0", "u1d7e1", "u1d7e2", "u1d7e3", "u1d7e4", "u1d7e5",
   "u1d7e6", "u1d7e7", "u1d7e8", "u1d7e9", "u1d7ea", "u1d7eb", "u1d7ec", "u1d7ed",
   "u1d7ee", "u1d7ef", "u1d7f0", "u1d7f1", "u1d7f2", "u1d7f3", "u1d7f4", "u1d7f5",
   "u1d7f6", "u1d7f7", "u1d7f8", "u1d7f9", "u1d7fa", "u1d7fb", "u1d7fc", "u1d7fd",
   "u1d7fe", "u1d7ff", "u1e140", "u1e141", "u1e142", "u1e143", "u1e144", "u1e145",
   "u1e146", "u1e147", "u1e148", "u1e149", "u1e2f0", "u1e2f1", "u1e2f2", "u1e2f3",
   "u1e2f4", "u1e2f5", "u1e2f6", "u1e2f7", "u1e2f8", "u1e2f9", "u1e950", "u1e951",
   "u1e952", "u1e953", "u1e954", "u1e955", "u1e956", "u1e957", "u1e958", "u1e959",
   "u1fbf0", "u1fbf1", "u1fbf2", "u1fbf3", "u1fbf4", "u1fbf5", "u1fbf6", "u1fbf7",
   "u1fbf8", "u1fbf9">>

\* the characters int() reads as digits
DecimalDigits == Digits \cup {DecimalDigitSeq[i] : i \in 1..Len(DecimalDigitSeq)}

\* the digits that are no decimal digits (superscripts, circled digits):
\* str.isdigit() is true of them and int() rejects them
OtherDigits ==
  {"u00b2", "u00b3", "u00b9", "u1369", "u136a", "u136b", "u136c", "u136d", "u136e",
   "u136f", "u1370", "u1371", "u19da", "u2070", "u2074", "u2075", "u2076", "u2077",
   "u2078", "u2079", "u2080", "u2081", "u2082", "u2083", "u2084", "u2085", "u2086",
   "u2087", "u2088", "u2089", "u2460", "u2461", "u2462", "u2463", "u2464", "u2465",
   "u2466", "u2467", "u2468", "u2474", "u2475", "u2476", "u2477", "u2478", "u2479",
   "u247a", "u247b", "u247c", "u2488", "u2489", "u248a", "u248b", "u248c", "u248d",
   "u248e", "u248f", "u2490", "u24ea", "u24f5", "u24f6", "u24f7", "u24f8", "u24f9",
   "u24fa", "u24fb", "u24fc", "u24fd", "u24ff", "u2776", "u2777", "u2778", "u2779",
   "u277a", "u277b", "u277c", "u277d", "u277e", "u2780", "u2781", "u2782", "u2783",
   "u2784", "u2785", "u2786", "u2787", "u2788", "u278a", "u278b", "u278c", "u278d",
   "u278e", "u278f", "u2790", "u2791", "u2792", "u10a40", "u10a41", "u10a42", "u10a43",
   "u10e60", "u10e61", "u10e62", "u10e63", "u10e64", "u10e65", "u10e66", "u10e67",
   "u10e68", "u11052", "u11053", "u11054", "u11055", "u11056", "u11057", "u11058",
   "u11059", "u1105a", "u1f100", "u1f101", "u1f102", "u1f103", "u1f104", "u1f105",
   "u1f106", "u1f107", "u1f108", "u1f109", "u1f10a"}

\* c.isdigit()
IsDigit(c) == c \in DecimalDigits \/ c \in OtherDigits

\* the place of c in seq
IndexIn(seq, c) == CHOOSE i \in 1..Len(seq) : seq[i] = c

DigitVal(c) ==
  CASE c = "0" -> 0 [] c = "1" -> 1 [] c = "2" -> 2 [] c = "3" -> 3
    [] c = "4" -> 4 [] c = "5" -> 5 [] c = "6" -> 6 [] c = "7" -> 7
    [] c = "8" -> 8 [] c = "9" -> 9
    [] OTHER -> (IndexIn(DecimalDigitSeq, c) - 1) % 10

UpperAlpha ==
  <<"A", "B", "C", "D", "E", "F", "G", "H", "I", "J", "K", "L", "M",
    "N", "O", "P", "Q", "R", "S", "T", "U", "V", "W", "X", "Y", "Z">>

LowerAlpha ==
  <<"a", "b", "c", "d", "e", "f", "g", "h", "i", "j", "k", "l", "m",
    "n", "o", "p", "q", "r", "s", "t", "u", "v", "w", "x", "y", "z">>

\* the characters outside ASCII that have a lower-case form of a single
\* character, and that form at the same place (the capital sigma and the
\* dotted capital I are below)
UnicodeUpperSeq ==
  <<"u00c0", "u00c1", "u00c2", "u00c3", "u00c4", "u00c5", "u00c6", "u00c7", "u00c8",
   "u00c9", "u00ca", "u00cb", "u00cc", "u00cd", "u00ce", "u00cf", "u00d0", "u00d1",
   "u00d2", "u00d3", "u00d4", "u00d5", "u00d6", "u00d8", "u00d9", "u00da", "u00db",
   "u00dc", "u00dd", "u00de", "u0100", "u0102", "u0104", "u0106", "u0108", "u010a",
   "u010c", "u010e", "u0110", "u0112", "u0114", "u0116", "u0118", "u011a", "u011c",
   "u011e", "u0120", "u0122", "u0124", "u0126", "u0128", "u012a", "u012c", "u012e",
   "u0132", "u0134", "u0136", "u0139", "u013b", "u013d", "u013f", "u0141", "u0143",
   "u0145", "u0147", "u014a", "u014c", "u014e", "u0150", "u0152", "u0154", "u0156",
   "u0158", "u015a", "u015c", "u015e", "u0160", "u0162", "u0164", "u0166", "u0168",
   "u016a", "u016c", "u016e", "u0170", "u0172", "u0174", "u0176", "u0178", "u0179",
   "u017b", "u017d", "u0181", "u0182", "u0184", "u0186", "u0187", "u0189", "u018a",
   "u018b", "u018e", "u018f", "u0190", "u0191", "u0193", "u0194", "u0196", "u0197",
   "u0198", "u019c", "u019d", "u019f", "u01a0", "u01a2", "u01a4", "u01a6", "u01a7",
   "u01a9", "u01ac", "u01ae", "u01af", "u01b1", "u01b2", "u01b3", "u01b5", "u01b7",
   "u01b8", "u01bc", "u01c4", "u01c5", "u01c7", "u01c8", "u01ca", "u01cb", "u01cd",
   "u01cf", "u01d1", "u01d3", "u01d5", "u01d7", "u01d9", "u01db", "u01de", "u01e0",
   "u01e2", "u01e4", "u01e6", "u01e8", "u01ea", "u01ec", "u01ee", "u01f1", "u01f2",
   "u01f4", "u01f6", "u01f7", "u01f8", "u01fa", "u01fc", "u01fe", "u0200", "u0202",
   "u0204", "u0206", "u0208", "u020a", "u020c", "u020e", "u0210", "u0212", "u0214",
   "u0216", "u0218", "u021a", "u021c", "u021e", "u0220", "u0222", "u0224", "u0226",
   "u0228", "u022a", "u022c", "u022e", "u0230", "u0232", "u023a", "u023b", "u023d",
   "u023e", "u0241", "u0243", "u0244", "u0245", "u0246", "u0248", "u024a", "u024c",
   "u024e", "u0370", "u0372", "u0376", "u037f", "u0386", "u0388", "u0389", "u038a",
   "u038c", "u038e", "u038f", "u0391", "u0392", "u0393", "u0394", "u0395", "u0396",
   "u0397", "u0398", "u0399", "u039a", "u039b", "u039c", "u039d", "u039e", "u039f",
   "u03a0", "u03a1", "u03a4", "u03a5", "u03a6", "u03a7", "u03a8", "u03a9", "u03aa",
   "u03ab", "u03cf", "u03d8", "u03da", "u03dc", "u03de", "u03e0", "u03e2", "u03e4",
   "u03e6", "u03e8", "u03ea", "u03ec", "u03ee", "u03f4", "u03f7", "u03f9", "u03fa",
   "u03fd", "u03fe", "u03ff", "u0400", "u0401", "u0402", "u0403", "u0404", "u0405",
   "u0406", "u0407", "u0408", "u0409", "u040a", "u040b", "u040c", "u040d", "u040e",
   "u040f", "u0410", "u0411", "u0412", "u0413", "u0414", "u0415", "u0416", "u0417",
   "u0418", "u0419", "u041a", "u041b", "u041c", "u041d", "u041e", "u041f", "u0420",
   "u0421", "u0422", "u0423", "u0424", "u0425", "u0426", "u0427", "u0428", "u0429",
   "u042a", "u042b", "u042c", "u042d", "u042e", "u042f", "u0460", "u0462", "u0464",
   "u0466", "u0468", "u046a", "u046c", "u046e", "u0470", "u0472", "u0474", "u0476",
   "u0478", "u047a", "u047c", "u047e", "u0480", "u048a", "u048c", "u048e", "u0490",
   "u0492", "u0494", "u0496", "u0498", "u049a", "u049c", "u049e", "u04a0", "u04a2",
   "u04a4", "u04a6", "u04a8", "u04aa", "u04ac", "u04ae", "u04b0", "u04b2", "u04b4",
   "u04b6", "u04b8", "u04ba", "u04bc", "u04be", "u04c0", "u04c1", "u04c3", "u04c5",
   "u04c7", "u04c9", "u04cb", "u04cd", "u04d0", "u04d2", "u04d4", "u04d6", "u04d8",
   "u04da", "u04dc", "u04de", "u04e0", "u04e2", "u04e4", "u04e6", "u04e8", "u04ea",
   "u04ec", "u04ee", "u04f0", "u04f2", "u04f4", "u04f6", "u04f8", "u04fa", "u04fc",
   "u04fe", "u0500", "u0502", "u0504", "u0506", "u0508", "u050a", "u050c", "u050e",
   "u0510", "u0512", "u0514", "u0516", "u0518", "u051a", "u051c", "u051e", "u0520",
   "u0522", "u0524", "u0526", "u0528", "u052a", "u052c", "u052e", "u0531", "u0532",
   "u0533", "u0534", "u0535", "u0536", "u0537", "u0538", "u0539", "u053a", "u053b",
   "u053c", "u053d", "u053e", "u053f", "u0540", "u0541", "u0542", "u0543", "u0544",
   "u0545", "u0546", "u0547", "u0548", "u0549", "u054a", "u054b", "u054c", "u054d",
   "u054e", "u054f", "u0550", "u0551", "u0552", "u0553", "u0554", "u0555", "u0556",
   "u10a0", "u10a1", "u10a2", "u10a3", "u10a4", "u10a5", "u10a6", "u10a7", "u10a8",
   "u10a9", "u10aa", "u10ab", "u10ac", "u10ad", "u10ae", "u10af", "u10b0", "u10b1",
   "u10b2", "u10b3", "u10b4", "u10b5", "u10b6", "u10b7", "u10b8", "u10b9", "u10ba",
   "u10bb", "u10bc", "u10bd", "u10be", "u10bf", "u10c0", "u10c1", "u10c2", "u10c3",
   "u10c4", "u10c5", "u10c7", "u10cd", "u13a0", "u13a1", "u13a2", "u13a3", "u13a4",
   "u13a5", "u13a6", "u13a7", "u13a8", "u13a9", "u13aa", "u13ab", "u13ac", "u13ad",
   "u13ae", "u13af", "u13b0", "u13b1", "u13b2", "u13b3", "u13b4", "u13b5", "u13b6",
   "u13b7", "u13b8", "u13b9", "u13ba", "u13bb", "u13bc", "u13bd", "u13be", "u13bf",
   "u13c0", "u13c1", "u13c2", "u13c3", "u13c4", "u13c5", "u13c6", "u13c7", "u13c8",
   "u13c9", "u13ca", "u13cb", "u13cc", "u13cd", "u13ce", "u13cf", "u13d0", "u13d1",
   "u13d2", "u13d3", "u13d4", "u13d5", "u13d6", "u13d7", "u13d8", "u13d9", "u13da",
   "u13db", "u13dc", "u13dd", "u13de", "u13df", "u13e0", "u13e1", "u13e2", "u13e3",
   "u13e4", "u13e5", "u13e6", "u13e7", "u13e8", "u13e9", "u13ea", "u13eb", "u13ec",
   "u13ed", "u13ee", "u13ef", "u13f0", "u13f1", "u13f2", "u13f3", "u13f4", "u13f5",
   "u1c90", "u1c91", "u1c92", "u1c93", "u1c94", "u1c95", "u1c96", "u1c97", "u1c98",
   "u1c99", "u1c9a", "u1c9b", "u1c9c", "u1c9d", "u1c9e", "u1c9f", "u1ca0", "u1ca1",
   "u1ca2", "u1ca3", "u1ca4", "u1ca5", "u1ca6", "u1ca7", "u1ca8", "u1ca9", "u1caa",
   "u1cab", "u1cac", "u1cad", "u1cae", "u1caf", "u1cb0", "u1cb1", "u1cb2", "u1cb3",
   "u1cb4", "u1cb5", "u1cb6", "u1cb7", "u1cb8", "u1cb9", "u1cba", "u1cbd", "u1cbe",
   "u1cbf", "u1e00", "u1e02", "u1e04", "u1e06", "u1e08", "u1e0a", "u1e0c", "u1e0e",
   "u1e10", "u1e12", "u1e14", "u1e16", "u1e18", "u1e1a", "u1e1c", "u1e1e", "u1e20",
   "u1e22", "u1e24", "u1e26", "u1e28", "u1e2a", "u1e2c", "u1e2e", "u1e30", "u1e32",
   "u1e34", "u1e36", "u1e38", "u1e3a", "u1e3c", "u1e3e", "u1e40", "u1e42", "u1e44",
   "u1e46", "u1e48", "u1e4a", "u1e4c", "u1e4e", "u1e50", "u1e52", "u1e54", "u1e56",
   "u1e58", "u1e5a", "u1e5c", "u1e5e", "u1e60", "u1e62", "u1e64", "u1e66", "u1e68",
   "u1e6a", "u1e6c", "u1e6e", "u1e70", "u1e72", "u1e74", "u1e76", "u1e78", "u1e7a",
   "u1e7c", "u1e7e", "u1e80", "u1e82", "u1e84", "u1e86", "u1e88", "u1e8a", "u1e8c",
   "u1e8e", "u1e90", "u1e92", "u1e94", "u1e9e", "u1ea0", "u1ea2", "u1ea4", "u1ea6",
   "u1ea8", "u1eaa", "u1eac", "u1eae", "u1eb0", "u1eb2", "u1eb4", "u1eb6", "u1eb8",
   "u1eba", "u1ebc", "u1ebe", "u1ec0", "u1ec2", "u1ec4", "u1ec6", "u1ec8", "u1eca",
   "u1ecc", "u1ece", "u1ed0", "u1ed2", "u1ed4", "u1ed6", "u1ed8", "u1eda", "u1edc",
   "u1ede", "u1ee0", "u1ee2", "u1ee4", "u1ee6", "u1ee8", "u1eea", "u1eec", "u1eee",
   "u1ef0", "u1ef2", "u1ef4", "u1ef6", "u1ef8", "u1efa", "u1efc", "u1efe", "u1f08",
   "u1f09", "u1f0a", "u1f0b", "u1f0c", "u1f0d", "u1f0e", "u1f0f", "u1f18", "u1f19",
   "u1f1a", "u1f1b", "u1f1c", "u1f1d", "u1f28", "u1f29", "u1f2a", "u1f2b", "u1f2c",
   "u1f2d", "u1f2e", "u1f2f", "u1f38", "u1f39", "u1f3a", "u1f3b", "u1f3c", "u1f3d",
   "u1f3e", "u1f3f", "u1f48", "u1f49", "u1f4a", "u1f4b", "u1f4c", "u1f4d", "u1f59",
   "u1f5b", "u1f5d", "u1f5f", "u1f68", "u1f69", "u1f6a", "u1f6b", "u1f6c", "u1f6d",
   "u1f6e", "u1f6f", "u1f88", "u1f89", "u1f8a", "u1f8b", "u1f8c", "u1f8d", "u1f8e",
   "u1f8f", "u1f98", "u1f99", "u1f9a", "u1f9b", "u1f9c", "u1f9d", "u1f9e", "u1f9f",
   "u1fa8", "u1fa9", "u1faa", "u1fab", "u1fac", "u1fad", "u1fae", "u1faf", "u1fb8",
   "u1fb9", "u1fba", "u1fbb", "u1fbc", "u1fc8", "u1fc9", "u1fca", "u1fcb", "u1fcc",
   "u1fd8", "u1fd9", "u1fda", "u1fdb", "u1fe8", "u1fe9", "u1fea", "u1feb", "u1fec",
   "u1ff8", "u1ff9", "u1ffa", "u1ffb", "u1ffc", "u2126", "u212a", "u212b", "u2132",
   "u2160", "u2161", "u2162", "u2163", "u2164", "u2165", "u2166", "u2167", "u2168",
   "u2169", "u216a", "u216b", "u216c", "u216d", "u216e", "u216f", "u2183", "u24b6",
   "u24b7", "u24b8", "u24b9", "u24ba", "u24bb", "u24bc", "u24bd", "u24be", "u24bf",
   "u24c0", "u24c1", "u24c2", "u24c3", "u24c4", "u24c5", "u24c6", "u24c7", "u24c8",
   "u24c9", "u24ca", "u24cb", "u24cc", "u24cd", "u24ce", "u24cf", "u2c00", "u2c01",
   "u2c02", "u2c03", "u2c04", "u2c05", "u2c06", "u2c07", "u2c08", "u2c09", "u2c0a",
   "u2c0b", "u2c0c", "u2c0d", "u2c0e", "u2c0f", "u2c10", "u2c11", "u2c12", "u2c13",
   "u2c14", "u2c15", "u2c16", "u2c17", "u2c18", "u2c19", "u2c1a", "u2c1b", "u2c1c",
   "u2c1d", "u2c1e", "u2c1f", "u2c20", "u2c21", "u2c22", "u2c23", "u2c24", "u2c25",
   "u2c26", "u2c27", "u2c28", "u2c29", "u2c2a", "u2c2b", "u2c2c", "u2c2d", "u2c2e",
   "u2c2f", "u2c60", "u2c62", "u2c63", "u2c64", "u2c67", "u2c69", "u2c6b", "u2c6d",
   "u2c6e", "u2c6f", "u2c70", "u2c72", "u2c75", "u2c7e", "u2c7f", "u2c80", "u2c82",
   "u2c84", "u2c86", "u2c88", "u2c8a", "u2c8c", "u2c8e", "u2c90", "u2c92", "u2c94",
   "u2c96", "u2c98", "u2c9a", "u2c9c", "u2c9e", "u2ca0", "u2ca2", "u2ca4", "u2ca6",
   "u2ca8", "u2caa", "u2cac", "u2cae", "u2cb0", "u2cb2", "u2cb4", "u2cb6", "u2cb8",
   "u2cba", "u2cbc", "u2cbe", "u2cc0", "u2cc2", "u2cc4", "u2cc6", "u2cc8", "u2cca",
   "u2ccc", "u2cce", "u2cd0", "u2cd2", "u2cd4", "u2cd6", "u2cd8", "u2cda", "u2cdc",
   "u2cde", "u2ce0", "u2ce2", "u2ceb", "u2ced", "u2cf2", "ua640", "ua642", "ua644",
   "ua646", "ua648", "ua64a", "ua64c", "ua64e", "ua650", "ua652", "ua654", "ua656",
   "ua658", "ua65a", "ua65c", "ua65e", "ua660", "ua662", "ua664", "ua666", "ua668",
   "ua66a", "ua66c", "ua680", "ua682", "ua684", "ua686", "ua688", "ua68a", "ua68c",
   "ua68e", "ua690", "ua692", "ua694", "ua696", "ua698", "ua69a", "ua722", "ua724",
   "ua726", "ua728", "ua72a", "ua72c", "ua72e", "ua732", "ua734", "ua736", "ua738",
   "ua73a", "ua73c", "ua73e", "ua740", "ua742", "ua744", "ua746", "ua748", "ua74a",
   "ua74c", "ua74e", "ua750", "ua752", "ua754", "ua756", "ua758", "ua75a", "ua75c",
   "ua75e", "ua760", "ua762", "ua764", "ua766", "ua768", "ua76a", "ua76c", "ua76e",
   "ua779", "ua77b", "ua77d", "ua77e", "ua780", "ua782", "ua784", "ua786", "ua78b",
   "ua78d", "ua790", "ua792", "ua796", "ua798", "ua79a", "ua79c", "ua79e", "ua7a0",
   "ua7a2", "ua7a4", "ua7a6", "ua7a8", "ua7aa", "ua7ab", "ua7ac", "ua7ad", "ua7ae",
   "ua7b0", "ua7b1", "ua7b2", "ua7b3", "ua7b4", "ua7b6", "ua7b8", "ua7ba", "ua7bc",
   "ua7be", "ua7c0", "ua7c2", "ua7c4", "ua7c5", "ua7c6", "ua7c7", "ua7c9", "ua7d0",
   "ua7d6", "ua7d8", "ua7f5", "uff21", "uff22", "uff23", "uff24", "uff25", "uff26",
   "uff27", "uff28", "uff29", "uff2a", "uff2b", "uff2c", "uff2d", "uff2e", "uff2f",
   "uff30", "uff31", "uff32", "uff33", "uff34", "uff35", "uff36", "uff37", "uff38",
   "uff39", "uff3a", "u10400", "u10401", "u10402", "u10403", "u10404", "u10405",
   "u10406", "u10407", "u10408", "u10409", "u1040a", "u1040b", "u1040c", "u1040d",
   "u1040e", "u1040f", "u10410", "u10411", "u10412", "u10413", "u10414", "u10415",
   "u10416", "u10417", "u10418", "u10419", "u1041a", "u1041b", "u1041c", "u1041d",
   "u1041e", "u1041f", "u10420", "u10421", "u10422", "u10423", "u10424", "u10425",
   "u10426", "u10427", "u104b0", "u104b1", "u104b2", "u104b3", "u104b4", "u104b5",
   "u104b6", "u104b7", "u104b8", "u104b9", "u104ba", "u104bb", "u104bc", "u104bd",
   "u104be", "u104bf", "u104c0", "u104c1", "u104c2", "u104c3", "u104c4", "u104c5",
   "u104c6", "u104c7", "u104c8", "u104c9", "u104ca", "u104cb", "u104cc", "u104cd",
   "u104ce", "u104cf", "u104d0", "u104d1", "u104d2", "u104d3", "u10570", "u10571",
   "u10572", "u10573", "u10574", "u10575", "u10576", "u10577", "u10578", "u10579",
   "u1057a", "u1057c", "u1057d", "u1057e", "u1057f", "u10580", "u10581", "u10582",
   "u10583", "u10584", "u10585", "u10586", "u10587", "u10588", "u10589", "u1058a",
   "u1058c", "u1058d", "u1058e", "u1058f", "u10590", "u10591", "u10592", "u10594",
   "u10595", "u10c80", "u10c81", "u10c82", "u10c83", "u10c84", "u10c85", "u10c86",
   "u10c87", "u10c88", "u10c89", "u10c8a", "u10c8b", "u10c8c", "u10c8d", "u10c8e",
   "u10c8f", "u10c90", "u10c91", "u10c92", "u10c93", "u10c94", "u10c95", "u10c96",
   "u10c97", "u10c98", "u10c99", "u10c9a", "u10c9b", "u10c9c", "u10c9d", "u10c9e",
   "u10c9f", "u10ca0", "u10ca1", "u10ca2", "u10ca3", "u10ca4", "u10ca5", "u10ca6",
   "u10ca7", "u10ca8", "u10ca9", "u10caa", "u10cab", "u10cac", "u10cad", "u10cae",
   "u10caf", "u10cb0", "u10cb1", "u10cb2", "u118a0", "u118a1", "u118a2", "u118a3",
   "u118a4", "u118a5", "u118a6", "u118a7", "u118a8", "u118a9", "u118aa", "u118ab",
   "u118ac", "u118ad", "u118ae", "u118af", "u118b0", "u118b1", "u118b2", "u118b3",
   "u118b4", "u118b5", "u118b6", "u118b7", "u118b8", "u118b9", "u118ba", "u118bb",
   "u118bc", "u118bd", "u118be", "u118bf", "u16e40", "u16e41", "u16e42", "u16e43",
   "u16e44", "u16e45", "u16e46", "u16e47", "u16e48", "u16e49", "u16e4a", "u16e4b",
   "u16e4c", "u16e4d", "u16e4e", "u16e4f", "u16e50", "u16e51", "u16e52", "u16e53",
   "u16e54", "u16e55", "u16e56", "u16e57", "u16e58", "u16e59", "u16e5a", "u16e5b",
   "u16e5c", "u16e5d", "u16e5e", "u16e5f", "u1e900", "u1e901", "u1e902", "u1e903",
   "u1e904", "u1e905", "u1e906", "u1e907", "u1e908", "u1e909", "u1e90a", "u1e90b",
   "u1e90c", "u1e90d", "u1e90e", "u1e90f", "u1e910", "u1e911", "u1e912", "u1e913",
   "u1e914", "u1e915", "u1e916", "u1e917", "u1e918", "u1e919", "u1e91a", "u1e91b",
   "u1e91c", "u1e91d", "u1e91e", "u1e91f", "u1e920", "u1e921">>

UnicodeLowerSeq ==
  <<"u00e0", "u00e1", "u00e2", "u00e3", "u00e4", "u00e5", "u00e6", "u00e7", "u00e8",
   "u00e9", "u00ea", "u00eb", "u00ec", "u00ed", "u00ee", "u00ef", "u00f0", "u00f1",
   "u00f2", "u00f3", "u00f4", "u00f5", "u00f6", "u00f8", "u00f9", "u00fa", "u00fb",
   "u00fc", "u00fd", "u00fe", "u0101", "u0103", "u0105", "u0107", "u0109", "u010b",
   "u010d", "u010f", "u0111", "u0113", "u0115", "u0117", "u0119", "u011b", "u011d",
   "u011f", "u0121", "u0123", "u0125", "u0127", "u0129", "u012b", "u012d", "u012f",
   "u0133", "u0135", "u0137", "u013a", "u013c", "u013e", "u0140", "u0142", "u0144",
   "u0146", "u0148", "u014b", "u014d", "u014f", "u0151", "u0153", "u0155", "u0157",
   "u0159", "u015b", "u015d", "u015f", "u0161", "u0163", "u0165", "u0167", "u0169",
   "u016b", "u016d", "u016f", "u0171", "u0173", "u0175", "u0177", "u00ff", "u017a",
   "u017c", "u017e", "u0253", "u0183", "u0185", "u0254", "u0188", "u0256", "u0257",
   "u018c", "u01dd", "u0259", "u025b", "u0192", "u0260", "u0263", "u0269", "u0268",
   "u0199", "u026f", "u0272", "u0275", "u01a1", "u01a3", "u01a5", "u0280", "u01a8",
   "u0283", "u01ad", "u0288", "u01b0", "u028a", "u028b", "u01b4", "u01b6", "u0292",
   "u01b9", "u01bd", "u01c6", "u01c6", "u01c9", "u01c9", "u01cc", "u01cc", "u01ce",
   "u01d0", "u01d2", "u01d4", "u01d6", "u01d8", "u01da", "u01dc", "u01df", "u01e1",
   "u01e3", "u01e5", "u01e7", "u01e9", "u01eb", "u01ed", "u01ef", "u01f3", "u01f3",
   "u01f5", "u0195", "u01bf", "u01f9", "u01fb", "u01fd", "u01ff", "u0201", "u0203",
   "u0205", "u0207", "u0209", "u020b", "u020d", "u020f", "u0211", "u0213", "u0215",
   "u0217", "u0219", "u021b", "u021d", "u021f", "u019e", "u0223", "u0225", "u0227",
   "u0229", "u022b", "u022d", "u022f", "u0231", "u0233", "u2c65", "u023c", "u019a",
   "u2c66", "u0242", "u0180", "u0289", "u028c", "u0247", "u0249", "u024b", "u024d",
   "u024f", "u0371", "u0373", "u0377", "u03f3", "u03ac", "u03ad", "u03ae", "u03af",
   "u03cc", "u03cd", "u03ce", "u03b1", "u03b2", "u03b3", "u03b4", "u03b5", "u03b6",
   "u03b7", "u03b8", "u03b9", "u03ba", "u03bb", "u03bc", "u03bd", "u03be", "u03bf",
   "u03c0", "u03c1", "u03c4", "u03c5", "u03c6", "u03c7", "u03c8", "u03c9", "u03ca",
   "u03cb", "u03d7", "u03d9", "u03db", "u03dd", "u03df", "u03e1", "u03e3", "u03e5",
   "u03e7", "u03e9", "u03eb", "u03ed", "u03ef", "u03b8", "u03f8", "u03f2", "u03fb",
   "u037b", "u037c", "u037d", "u0450", "u0451", "u0452", "u0453", "u0454", "u0455",
   "u0456", "u0457", "u0458", "u0459", "u045a", "u045b", "u045c", "u045d", "u045e",
   "u045f", "u0430", "u0431", "u0432", "u0433", "u0434", "u0435", "u0436", "u0437",
   "u0438", "u0439", "u043a", "u043b", "u043c", "u043d", "u043e", "u043f", "u0440",
   "u0441", "u0442", "u0443", "u0444", "u0445", "u0446", "u0447", "u0448", "u0449",
   "u044a", "u044b", "u044c", "u044d", "u044e", "u044f", "u0461", "u0463", "u0465",
   "u0467", "u0469", "u046b", "u046d", "u046f", "u0471", "u0473", "u0475", "u0477",
   "u0479", "u047b", "u047d", "u047f", "u0481", "u048b", "u048d", "u048f", "u0491",
   "u0493", "u0495", "u0497", "u0499", "u049b", "u049d", "u049f", "u04a1", "u04a3",
   "u04a5", "u04a7", "u04a9", "u04ab", "u04ad", "u04af", "u04b1", "u04b3", "u04b5",
   "u04b7", "u04b9", "u04bb", "u04bd", "u04bf", "u04cf", "u04c2", "u04c4", "u04c6",
   "u04c8", "u04ca", "u04cc", "u04ce", "u04d1", "u04d3", "u04d5", "u04d7", "u04d9",
   "u04db", "u04dd", "u04df", "u04e1", "u04e3", "u04e5", "u04e7", "u04e9", "u04eb",
   "u04ed", "u04ef", "u04f1", "u04f3", "u04f5", "u04f7", "u04f9", "u04fb", "u04fd",
   "u04ff", "u0501", "u0503", "u0505", "u0507", "u0509", "u050b", "u050d", "u050f",
   "u0511", "u0513", "u0515", "u0517", "u0519", "u051b", "u051d", "u051f", "u0521",
   "u0523", "u0525", "u0527", "u0529", "u052b", "u052d", "u052f", "u0561", "u0562",
   "u0563", "u0564", "u0565", "u0566", "u0567", "u0568", "u0569", "u056a", "u056b",
   "u056c", "u056d", "u056e", "u056f", "u0570", "u0571", "u0572", "u0573", "u0574",
   "u0575", "u0576", "u0577", "u0578", "u0579", "u057a", "u057b", "u057c", "u057d",
   "u057e", "u057f", "u0580", "u0581", "u0582", "u0583", "u0584", "u0585", "u0586",
   "u2d00", "u2d01", "u2d02", "u2d03", "u2d04", "u2d05", "u2d06", "u2d07", "u2d08",
   "u2d09", "u2d0a", "u2d0b", "u2d0c", "u2d0d", "u2d0e", "u2d0f", "u2d10", "u2d11",
   "u2d12", "u2d13", "u2d14", "u2d15", "u2d16", "u2d17", "u2d18", "u2d19", "u2d1a",
   "u2d1b", "u2d1c", "u2d1d", "u2d1e", "u2d1f", "u2d20", "u2d21", "u2d22", "u2d23",
   "u2d24", "u2d25", "u2d27", "u2d2d", "uab70", "uab71", "uab72", "uab73", "uab74",
   "uab75", "uab76", "uab77", "uab78", "uab79", "uab7a", "uab7b", "uab7c", "uab7d",
   "uab7e", "uab7f", "uab80", "uab81", "uab82", "uab83", "uab84", "uab85", "uab86",
   "uab87", "uab88", "uab89", "uab8a", "uab8b", "uab8c", "uab8d", "uab8e", "uab8f",
   "uab90", "uab91", "uab92", "uab93", "uab94", "uab95", "uab96", "uab97", "uab98",
   "uab99", "uab9a", "uab9b", "uab9c", "uab9d", "uab9e", "uab9f", "uaba0", "uaba1",
   "uaba2", "uaba3", "uaba4", "uaba5", "uaba6", "uaba7", "uaba8", "uaba9", "uabaa",
   "uabab", "uabac", "uabad", "uabae", "uabaf", "uabb0", "uabb1", "uabb2", "uabb3",
   "uabb4", "uabb5", "uabb6", "uabb7", "uabb8", "uabb9", "uabba", "uabbb", "uabbc",
   "uabbd", "uabbe", "uabbf", "u13f8", "u13f9", "u13fa", "u13fb", "u13fc", "u13fd",
   "u10d0", "u10d1", "u10d2", "u10d3", "u10d4", "u10d5", "u10d6", "u10d7", "u10d8",
   "u10d9", "u10da", "u10db", "u10dc", "u10dd", "u10de", "u10df", "u10e0", "u10e1",
   "u10e2", "u10e3", "u10e4", "u10e5", "u10e6", "u10e7", "u10e8", "u10e9", "u10ea",
   "u10eb", "u10ec", "u10ed", "u10ee", "u10ef", "u10f0", "u10f1", "u10f2", "u10f3",
   "u10f4", "u10f5", "u10f6", "u10f7", "u10f8", "u10f9", "u10fa", "u10fd", "u10fe",
   "u10ff", "u1e01", "u1e03", "u1e05", "u1e07", "u1e09", "u1e0b", "u1e0d", "u1e0f",
   "u1e11", "u1e13", "u1e15", "u1e17", "u1e19", "u1e1b", "u1e1d", "u1e1f", "u1e21",
   "u1e23", "u1e25", "u1e27", "u1e29", "u1e2b", "u1e2d", "u1e2f", "u1e31", "u1e33",
   "u1e35", "u1e37", "u1e39", "u1e3b", "u1e3d", "u1e3f", "u1e41", "u1e43", "u1e45",
   "u1e47", "u1e49", "u1e4b", "u1e4d", "u1e4f", "u1e51", "u1e53", "u1e55", "u1e57",
   "u1e59", "u1e5b", "u1e5d", "u1e5f", "u1e61", "u1e63", "u1e65", "u1e67", "u1e69",
   "u1e6b", "u1e6d", "u1e6f", "u1e71", "u1e73", "u1e75", "u1e77", "u1e79", "u1e7b",
   "u1e7d", "u1e7f", "u1e81", "u1e83", "u1e85", "u1e87", "u1e89", "u1e8b", "u1e8d",
   "u1e8f", "u1e91", "u1e93", "u1e95", "u00df", "u1ea1", "u1ea3", "u1ea5", "u1ea7",
   "u1ea9", "u1eab", "u1ead", "u1eaf", "u1eb1", "u1eb3", "u1eb5", "u1eb7", "u1eb9",
   "u1ebb", "u1ebd", "u1ebf", "u1ec1", "u1ec3", "u1ec5", "u1ec7", "u1ec9", "u1ecb",
   "u1ecd", "u1ecf", "u1ed1", "u1ed3", "u1ed5", "u1ed7", "u1ed9", "u1edb", "u1edd",
   "u1edf", "u1ee1", "u1ee3", "u1ee5", "u1ee7", "u1ee9", "u1eeb", "u1eed", "u1eef",
   "u1ef1", "u1ef3", "u1ef5", "u1ef7", "u1ef9", "u1efb", "u1efd", "u1eff", "u1f00",
   "u1f01", "u1f02", "u1f03", "u1f04", "u1f05", "u1f06", "u1f07", "u1f10", "u1f11",
   "u1f12", "u1f13", "u1f14", "u1f15", "u1f20", "u1f21", "u1f22", "u1f23", "u1f24",
   "u1f25", "u1f26", "u1f27", "u1f30", "u1f31", "u1f32", "u1f33", "u1f34", "u1f35",
   "u1f36", "u1f37", "u1f40", "u1f41", "u1f42", "u1f43", "u1f44", "u1f45", "u1f51",
   "u1f53", "u1f55", "u1f57", "u1f60", "u1f61", "u1f62", "u1f63", "u1f64", "u1f65",
   "u1f66", "u1f67", "u1f80", "u1f81", "u1f82", "u1f83", "u1f84", "u1f85", "u1f86",
   "u1f87", "u1f90", "u1f91", "u1f92", "u1f93", "u1f94", "u1f95", "u1f96", "u1f97",
   "u1fa0", "u1fa1", "u1fa2", "u1fa3", "u1fa4", "u1fa5", "u1fa6", "u1fa7", "u1fb0",
   "u1fb1", "u1f70", "u1f71", "u1fb3", "u1f72", "u1f73", "u1f74", "u1f75", "u1fc3",
   "u1fd0", "u1fd1", "u1f76", "u1f77", "u1fe0", "u1fe1", "u1f7a", "u1f7b", "u1fe5",
   "u1f78", "u1f79", "u1f7c", "u1f7d", "u1ff3", "u03c9", "k", "u00e5", "u214e", "u2170",
   "u2171", "u2172", "u2173", "u2174", "u2175", "u2176", "u2177", "u2178", "u2179",
   "u217a", "u217b", "u217c", "u217d", "u217e", "u217f", "u2184", "u24d0", "u24d1",
   "u24d2", "u24d3", "u24d4", "u24d5", "u24d6", "u24d7", "u24d8", "u24d9", "u24da",
   "u24db", "u24dc", "u24dd", "u24de", "u24df", "u24e0", "u24e1", "u24e2", "u24e3",
   "u24e4", "u24e5", "u24e6", "u24e7", "u24e8", "u24e9", "u2c30", "u2c31", "u2c32",
   "u2c33", "u2c34", "u2c35", "u2c36", "u2c37", "u2c38", "u2c39", "u2c3a", "u2c3b",
   "u2c3c", "u2c3d", "u2c3e", "u2c3f", "u2c40", "u2c41", "u2c42", "u2c43", "u2c44",
   "u2c45", "u2c46", "u2c47", "u2c48", "u2c49", "u2c4a", "u2c4b", "u2c4c", "u2c4d",
   "u2c4e", "u2c4f", "u2c50", "u2c51", "u2c52", "u2c53", "u2c54", "u2c55", "u2c56",
   "u2c57", "u2c58", "u2c59", "u2c5a", "u2c5b", "u2c5c", "u2c5d", "u2c5e", "u2c5f",
   "u2c61", "u026b", "u1d7d", "u027d", "u2c68", "u2c6a", "u2c6c", "u0251", "u0271",
   "u0250", "u0252", "u2c73", "u2c76", "u023f", "u0240", "u2c81", "u2c83", "u2c85",
   "u2c87", "u2c89", "u2c8b", "u2c8d", "u2c8f", "u2c91", "u2c93", "u2c95", "u2c97",
   "u2c99", "u2c9b", "u2c9d", "u2c9f", "u2ca1", "u2ca3", "u2ca5", "u2ca7", "u2ca9",
   "u2cab", "u2cad", "u2caf", "u2cb1", "u2cb3", "u2cb5", "u2cb7", "u2cb9", "u2cbb",
   "u2cbd", "u2cbf", "u2cc1", "u2cc3", "u2cc5", "u2cc7", "u2cc9", "u2ccb", "u2ccd",
   "u2ccf", "u2cd1", "u2cd3", "u2cd5", "u2cd7", "u2cd9", "u2cdb", "u2cdd", "u2cdf",
   "u2ce1", "u2ce3", "u2cec", "u2cee", "u2cf3", "ua641", "ua643", "ua645", "ua647",
   "ua649", "ua64b", "ua64d", "ua64f", "ua651", "ua653", "ua655", "ua657", "ua659",
   "ua65b", "ua65d", "ua65f", "ua661", "ua663", "ua665", "ua667", "ua669", "ua66b",
   "ua66d", "ua681", "ua683", "ua685", "ua687", "ua689", "ua68b", "ua68d", "ua68f",
   "ua691", "ua693", "ua695", "ua697", "ua699", "ua69b", "ua723", "ua725", "ua727",
   "ua729", "ua72b", "ua72d", "ua72f", "ua733", "ua735", "ua737", "ua739", "ua73b",
   "ua73d", "ua73f", "ua741", "ua743", "ua745", "ua747", "ua749", "ua74b", "ua74d",
   "ua74f", "ua751", "ua753", "ua755", "ua757", "ua759", "ua75b", "ua75d", "ua75f",
   "ua761", "ua763", "ua765", "ua767", "ua769", "ua76b", "ua76d", "ua76f", "ua77a",
   "ua77c", "u1d79", "ua77f", "ua781", "ua783", "ua785", "ua787", "ua78c", "u0265",
   "ua791", "ua793", "ua797", "ua799", "ua79b", "ua79d", "ua79f", "ua7a1", "ua7a3",
   "ua7a5", "ua7a7", "ua7a9", "u0266", "u025c", "u0261", "u026c", "u026a", "u029e",
   "u0287", "u029d", "uab53", "ua7b5", "ua7b7", "ua7b9", "ua7bb", "ua7bd", "ua7bf",
   "ua7c1", "ua7c3", "ua794", "u0282", "u1d8e", "ua7c8", "ua7ca", "ua7d1", "ua7d7",
   "ua7d9", "ua7f6", "uff41", "uff42", "uff43", "uff44", "uff45", "uff46", "uff47",
   "uff48", "uff49", "uff4a", "uff4b", "uff4c", "uff4d", "uff4e", "uff4f", "uff50",
   "uff51", "uff52", "uff53", "uff54", "uff55", "uff56", "uff57", "uff58", "uff59",
   "uff5a", "u10428", "u10429", "u1042a", "u1042b", "u1042c", "u1042d", "u1042e",
   "u1042f", "u10430", "u10431", "u10432", "u10433", "u10434", "u10435", "u10436",
   "u10437", "u10438", "u10439", "u1043a", "u1043b", "u1043c", "u1043d", "u1043e",
   "u1043f", "u10440", "u10441", "u10442", "u10443", "u10444", "u10445", "u10446",
   "u10447", "u10448", "u10449", "u1044a", "u1044b", "u1044c", "u1044d", "u1044e",
   "u1044f", "u104d8", "u104d9", "u104da", "u104db", "u104dc", "u104dd", "u104de",
   "u104df", "u104e0", "u104e1", "u104e2", "u104e3", "u104e4", "u104e5", "u104e6",
   "u104e7", "u104e8", "u104e9", "u104ea", "u104eb", "u104ec", "u104ed", "u104ee",
   "u104ef", "u104f0", "u104f1", "u104f2", "u104f3", "u104f4", "u104f5", "u104f6",
   "u104f7", "u104f8", "u104f9", "u104fa", "u104fb", "u10597", "u10598", "u10599",
   "u1059a", "u1059b", "u1059c", "u1059d", "u1059e", "u1059f", "u105a0", "u105a1",
   "u105a3", "u105a4", "u105a5", "u105a6", "u105a7", "u105a8", "u105a9", "u105aa",
   "u105ab", "u105ac", "u105ad", "u105ae", "u105af", "u105b0", "u105b1", "u105b3",
   "u105b4", "u105b5", "u105b6", "u105b7", "u105b8", "u105b9", "u105bb", "u105bc",
   "u10cc0", "u10cc1", "u10cc2", "u10cc3", "u10cc4", "u10cc5", "u10cc6", "u10cc7",
   "u10cc8", "u10cc9", "u10cca", "u10ccb", "u10ccc", "u10ccd", "u10cce", "u10ccf",
   "u10cd0", "u10cd1", "u10cd2", "u10cd3", "u10cd4", "u10cd5", "u10cd6", "u10cd7",
   "u10cd8", "u10cd9", "u10cda", "u10cdb", "u10cdc", "u10cdd", "u10cde", "u10cdf",
   "u10ce0", "u10ce1", "u10ce2", "u10ce3", "u10ce4", "u10ce5", "u10ce6", "u10ce7",
   "u10ce8", "u10ce9", "u10cea", "u10ceb", "u10cec", "u10ced", "u10cee", "u10cef",
   "u10cf0", "u10cf1", "u10cf2", "u118c0", "u118c1", "u118c2", "u118c3", "u118c4",
   "u118c5", "u118c6", "u118c7", "u118c8", "u118c9", "u118ca", "u118cb", "u118cc",
   "u118cd", "u118ce", "u118cf", "u118d0", "u118d1", "u118d2", "u118d3", "u118d4",
   "u118d5", "u118d6", "u118d7", "u118d8", "u118d9", "u118da", "u118db", "u118dc",
   "u118dd", "u118de", "u118df", "u16e60", "u16e61", "u16e62", "u16e63", "u16e64",
   "u16e65", "u16e66", "u16e67", "u16e68", "u16e69", "u16e6a", "u16e6b", "u16e6c",
   "u16e6d", "u16e6e", "u16e6f", "u16e70", "u16e71", "u16e72", "u16e73", "u16e74",
   "u16e75", "u16e76", "u16e77", "u16e78", "u16e79", "u16e7a", "u16e7b", "u16e7c",
   "u16e7d", "u16e7e", "u16e7f", "u1e922", "u1e923", "u1e924", "u1e925", "u1e926",
   "u1e927", "u1e928", "u1e929", "u1e92a", "u1e92b", "u1e92c", "u1e92d", "u1e92e",
   "u1e92f", "u1e930", "u1e931", "u1e932", "u1e933", "u1e934", "u1e935", "u1e936",
   "u1e937", "u1e938", "u1e939", "u1e93a", "u1e93b", "u1e93c", "u1e93d", "u1e93e",
   "u1e93f", "u1e940", "u1e941", "u1e942", "u1e943">>

UnicodeUpper == {UnicodeUpperSeq[i] : i \in 1..Len(UnicodeUpperSeq)}

AsciiUpper == {UpperAlpha[i] : i \in 1..Len(UpperAlpha)}

\* the characters the rule of the final sigma skips (Case_Ignorable); the
\* grave accent is written "x60", the middle dot "middot"
CaseIgnorable ==
  {"'", ".", ":", "^", "x60", "u00a8", "u00ad", "u00af", "u00b4", "middot", "u00b8",
   "u02b0", "u02b1", "u02b2", "u02b3", "u02b4", "u02b5", "u02b6", "u02b7", "u02b8",
   "u02b9", "u02ba", "u02bb", "u02bc", "u02bd", "u02be", "u02bf", "u02c0", "u02c1",
   "u02c2", "u02c3", "u02c4", "u02c5", "u02c6", "u02c7", "u02c8", "u02c9", "u02ca",
   "u02cb", "u02cc", "u02cd", "u02ce", "u02cf", "u02d0", "u02d1", "u02d2", "u02d3",
   "u02d4", "u02d5", "u02d6", "u02d7", "u02d8", "u02d9", "u02da", "u02db", "u02dc",
   "u02dd", "u02de", "u02df", "u02e0", "u02e1", "u02e2", "u02e3", "u02e4", "u02e5",
   "u02e6", "u02e7", "u02e8", "u02e9", "u02ea", "u02eb", "u02ec", "u02ed", "u02ee",
   "u02ef", "u02f0", "u02f1", "u02f2", "u02f3", "u02f4", "u02f5", "u02f6", "u02f7",
   "u02f8", "u02f9", "u02fa", "u02fb", "u02fc", "u02fd", "u02fe", "u02ff", "u0300",
   "u0301", "u0302", "u0303", "u0304", "u0305", "u0306", "u0307", "u0308", "u0309",
   "u030a", "u030b", "u030c", "u030d", "u030e", "u030f", "u0310", "u0311", "u0312",
   "u0313", "u0314", "u0315", "u0316", "u0317", "u0318", "u0319", "u031a", "u031b",
   "u031c", "u031d", "u031e", "u031f", "u0320", "u0321", "u0322", "u0323", "u0324",
   "u0325", "u0326", "u0327", "u0328", "u0329", "u032a", "u032b", "u032c", "u032d",
   "u032e", "u032f", "u0330", "u0331", "u0332", "u0333", "u0334", "u0335", "u0336",
   "u0337", "u0338", "u0339", "u033a", "u033b", "u033c", "u033d", "u033e", "u033f",
   "u0340", "u0341", "u0342", "u0343", "u0344", "u0345", "u0346", "u0347", "u0348",
   "u0349", "u034a", "u034b", "u034c", "u034d", "u034e", "u034f", "u0350", "u0351",
   "u0352", "u0353", "u0354", "u0355", "u0356", "u0357", "u0358", "u0359", "u035a",
   "u035b", "u035c", "u035d", "u035e", "u035f", "u0360", "u0361", "u0362", "u0363",
   "u0364", "u0365", "u0366", "u0367", "u0368", "u0369", "u036a", "u036b", "u036c",
   "u036d", "u036e", "u036f", "u0374", "u0375", "u037a", "u0384", "u0385", "u0387",
   "u0483", "u0484", "u0485", "u0486", "u0487", "u0488", "u0489", "u0559", "u055f",
   "u0591", "u0592", "u0593", "u0594", "u0595", "u0596", "u0597", "u0598", "u0599",
   "u059a", "u059b", "u059c", "u059d", "u059e", "u059f", "u05a0", "u05a1", "u05a2",
   "u05a3", "u05a4", "u05a5", "u05a6", "u05a7", "u05a8", "u05a9", "u05aa", "u05ab",
   "u05ac", "u05ad", "u05ae", "u05af", "u05b0", "u05b1", "u05b2", "u05b3", "u05b4",
   "u05b5", "u05b6", "u05b7", "u05b8", "u05b9", "u05ba", "u05bb", "u05bc", "u05bd",
   "u05bf", "u05c1", "u05c2", "u05c4", "u05c5", "u05c7", "u05f4", "u0600", "u0601",
   "u0602", "u0603", "u0604", "u0605", "u0610", "u0611", "u0612", "u0613", "u0614",
   "u0615", "u0616", "u0617", "u0618", "u0619", "u061a", "u061c", "u0640", "u064b",
   "u064c", "u064d", "u064e", "u064f", "u0650", "u0651", "u0652", "u0653", "u0654",
   "u0655", "u0656", "u0657", "u0658", "u0659", "u065a", "u065b", "u065c", "u065d",
   "u065e", "u065f", "u0670", "u06d6", "u06d7", "u06d8", "u06d9", "u06da", "u06db",
   "u06dc", "u06dd", "u06df", "u06e0", "u06e1", "u06e2", "u06e3", "u06e4", "u06e5",
   "u06e6", "u06e7", "u06e8", "u06ea", "u06eb", "u06ec", "u06ed", "u070f", "u0711",
   "u0730", "u0731", "u0732", "u0733", "u0734", "u0735", "u0736", "u0737", "u0738",
   "u0739", "u073a", "u073b", "u073c", "u073d", "u073e", "u073f", "u0740", "u0741",
   "u0742", "u0743", "u0744", "u0745", "u0746", "u0747", "u0748", "u0749", "u074a",
   "u07a6", "u07a7", "u07a8", "u07a9", "u07aa", "u07ab", "u07ac", "u07ad", "u07ae",
   "u07af", "u07b0", "u07eb", "u07ec", "u07ed", "u07ee", "u07ef", "u07f0", "u07f1",
   "u07f2", "u07f3", "u07f4", "u07f5", "u07fa", "u07fd", "u0816", "u0817", "u0818",
   "u0819", "u081a", "u081b", "u081c", "u081d", "u081e", "u081f", "u0820", "u0821",
   "u0822", "u0823", "u0824", "u0825", "u0826", "u0827", "u0828", "u0829", "u082a",
   "u082b", "u082c", "u082d", "u0859", "u085a", "u085b", "u0888", "u0890", "u0891",
   "u0898", "u0899", "u089a", "u089b", "u089c", "u089d", "u089e", "u089f", "u08c9",
   "u08ca", "u08cb", "u08cc", "u08cd", "u08ce", "u08cf", "u08d0", "u08d1", "u08d2",
   "u08d3", "u08d4", "u08d5", "u08d6", "u08d7", "u08d8", "u08d9", "u08da", "u08db",
   "u08dc", "u08dd", "u08de", "u08df", "u08e0", "u08e1", "u08e2", "u08e3", "u08e4",
   "u08e5", "u08e6", "u08e7", "u08e8", "u08e9", "u08ea", "u08eb", "u08ec", "u08ed",
   "u08ee", "u08ef", "u08f0", "u08f1", "u08f2", "u08f3", "u08f4", "u08f5", "u08f6",
   "u08f7", "u08f8", "u08f9", "u08fa", "u08fb", "u08fc", "u08fd", "u08fe", "u08ff",
   "u0900", "u0901", "u0902", "u093a", "u093c", "u0941", "u0942", "u0943", "u0944",
   "u0945", "u0946", "u0947", "u0948", "u094d", "u0951", "u0952", "u0953", "u0954",
   "u0955", "u0956", "u0957", "u0962", "u0963", "u0971", "u0981", "u09bc", "u09c1",
   "u09c2", "u09c3", "u09c4", "u09cd", "u09e2", "u09e3", "u09fe", "u0a01", "u0a02",
   "u0a3c", "u0a41", "u0a42", "u0a47", "u0a48", "u0a4b", "u0a4c", "u0a4d", "u0a51",
   "u0a70", "u0a71", "u0a75", "u0a81", "u0a82", "u0abc", "u0ac1", "u0ac2", "u0ac3",
   "u0ac4", "u0ac5", "u0ac7", "u0ac8", "u0acd", "u0ae2", "u0ae3", "u0afa", "u0afb",
   "u0afc", "u0afd", "u0afe", "u0aff", "u0b01", "u0b3c", "u0b3f", "u0b41", "u0b42",
   "u0b43", "u0b44", "u0b4d", "u0b55", "u0b56", "u0b62", "u0b63", "u0b82", "u0bc0",
   "u0bcd", "u0c00", "u0c04", "u0c3c", "u0c3e", "u0c3f", "u0c40", "u0c46", "u0c47",
   "u0c48", "u0c4a", "u0c4b", "u0c4c", "u0c4d", "u0c55", "u0c56", "u0c62", "u0c63",
   "u0c81", "u0cbc", "u0cbf", "u0cc6", "u0ccc", "u0ccd", "u0ce2", "u0ce3", "u0d00",
   "u0d01", "u0d3b", "u0d3c", "u0d41", "u0d42", "u0d43", "u0d44", "u0d4d", "u0d62",
   "u0d63", "u0d81", "u0dca", "u0dd2", "u0dd3", "u0dd4", "u0dd6", "u0e31", "u0e34",
   "u0e35", "u0e36", "u0e37", "u0e38", "u0e39", "u0e3a", "u0e46", "u0e47", "u0e48",
   "u0e49", "u0e4a", "u0e4b", "u0e4c", "u0e4d", "u0e4e", "u0eb1", "u0eb4", "u0eb5",
   "u0eb6", "u0eb7", "u0eb8", "u0eb9", "u0eba", "u0ebb", "u0ebc", "u0ec6", "u0ec8",
   "u0ec9", "u0eca", "u0ecb", "u0ecc", "u0ecd", "u0f18", "u0f19", "u0f35", "u0f37",
   "u0f39", "u0f71", "u0f72", "u0f73", "u0f74", "u0f75", "u0f76", "u0f77", "u0f78",
   "u0f79", "u0f7a", "u0f7b", "u0f7c", "u0f7d", "u0f7e", "u0f80", "u0f81", "u0f82",
   "u0f83", "u0f84", "u0f86", "u0f87", "u0f8d", "u0f8e", "u0f8f", "u0f90", "u0f91",
   "u0f92", "u0f93", "u0f94", "u0f95", "u0f96", "u0f97", "u0f99", "u0f9a", "u0f9b",
   "u0f9c", "u0f9d", "u0f9e", "u0f9f", "u0fa0", "u0fa1", "u0fa2", "u0fa3", "u0fa4",
   "u0fa5", "u0fa6", "u0fa7", "u0fa8", "u0fa9", "u0faa", "u0fab", "u0fac", "u0fad",
   "u0fae", "u0faf", "u0fb0", "u0fb1", "u0fb2", "u0fb3", "u0fb4", "u0fb5", "u0fb6",
   "u0fb7", "u0fb8", "u0fb9", "u0fba", "u0fbb", "u0fbc", "u0fc6", "u102d", "u102e",
   "u102f", "u1030", "u1032", "u1033", "u1034", "u1035", "u1036", "u1037", "u1039",
   "u103a", "u103d", "u103e", "u1058", "u1059", "u105e", "u105f", "u1060", "u1071",
   "u1072", "u1073", "u1074", "u1082", "u1085", "u1086", "u108d", "u109d", "u10fc",
   "u135d", "u135e", "u135f", "u1712", "u1713", "u1714", "u1732", "u1733", "u1752",
   "u1753", "u1772", "u1773", "u17b4", "u17b5", "u17b7", "u17b8", "u17b9", "u17ba",
   "u17bb", "u17bc", "u17bd", "u17c6", "u17c9", "u17ca", "u17cb", "u17cc", "u17cd",
   "u17ce", "u17cf", "u17d0", "u17d1", "u17d2", "u17d3", "u17d7", "u17dd", "u180b",
   "u180c", "u180d", "u180e", "u180f", "u1843", "u1885", "u1886", "u18a9", "u1920",
   "u1921", "u1922", "u1927", "u1928", "u1932", "u1939", "u193a", "u193b", "u1a17",
   "u1a18", "u1a1b", "u1a56", "u1a58", "u1a59", "u1a5a", "u1a5b", "u1a5c", "u1a5d",
   "u1a5e", "u1a60", "u1a62", "u1a65", "u1a66", "u1a67", "u1a68", "u1a69", "u1a6a",
   "u1a6b", "u1a6c", "u1a73", "u1a74", "u1a75", "u1a76", "u1a77", "u1a78", "u1a79",
   "u1a7a", "u1a7b", "u1a7c", "u1a7f", "u1aa7", "u1ab0", "u1ab1", "u1ab2", "u1ab3",
   "u1ab4", "u1ab5", "u1ab6", "u1ab7", "u1ab8", "u1ab9", "u1aba", "u1abb", "u1abc",
   "u1abd", "u1abe", "u1abf", "u1ac0", "u1ac1", "u1ac2", "u1ac3", "u1ac4", "u1ac5",
   "u1ac6", "u1ac7", "u1ac8", "u1ac9", "u1aca", "u1acb", "u1acc", "u1acd", "u1ace",
   "u1b00", "u1b01", "u1b02", "u1b03", "u1b34", "u1b36", "u1b37", "u1b38", "u1b39",
   "u1b3a", "u1b3c", "u1b42", "u1b6b", "u1b6c", "u1b6d", "u1b6e", "u1b6f", "u1b70",
   "u1b71", "u1b72", "u1b73", "u1b80", "u1b81", "u1ba2", "u1ba3", "u1ba4", "u1ba5",
   "u1ba8", "u1ba9", "u1bab", "u1bac", "u1bad", "u1be6", "u1be8", "u1be9", "u1bed",
   "u1bef", "u1bf0", "u1bf1", "u1c2c", "u1c2d", "u1c2e", "u1c2f", "u1c30", "u1c31",
   "u1c32", "u1c33", "u1c36", "u1c37", "u1c78", "u1c79", "u1c7a", "u1c7b", "u1c7c",
   "u1c7d", "u1cd0", "u1cd1", "u1cd2", "u1cd4", "u1cd5", "u1cd6", "u1cd7", "u1cd8",
   "u1cd9", "u1cda", "u1cdb", "u1cdc", "u1cdd", "u1cde", "u1cdf", "u1ce0", "u1ce2",
   "u1ce3", "u1ce4", "u1ce5", "u1ce6", "u1ce7", "u1ce8", "u1ced", "u1cf4", "u1cf8",
   "u1cf9", "u1d2c", "u1d2d", "u1d2e", "u1d2f", "u1d30", "u1d31", "u1d32", "u1d33",
   "u1d34", "u1d35", "u1d36", "u1d37", "u1d38", "u1d39", "u1d3a", "u1d3b", "u1d3c",
   "u1d3d", "u1d3e", "u1d3f", "u1d40", "u1d41", "u1d42", "u1d43", "u1d44", "u1d45",
   "u1d46", "u1d47", "u1d48", "u1d49", "u1d4a", "u1d4b", "u1d4c", "u1d4d", "u1d4e",
   "u1d4f", "u1d50", "u1d51", "u1d52", "u1d53", "u1d54", "u1d55", "u1d56", "u1d57",
   "u1d58", "u1d59", "u1d5a", "u1d5b", "u1d5c", "u1d5d", "u1d5e", "u1d5f", "u1d60",
   "u1d61", "u1d62", "u1d63", "u1d64", "u1d65", "u1d66", "u1d67", "u1d68", "u1d69",
   "u1d6a", "u1d78", "u1d9b", "u1d9c", "u1d9d", "u1d9e", "u1d9f", "u1da0", "u1da1",
   "u1da2", "u1da3", "u1da4", "u1da5", "u1da6", "u1da7", "u1da8", "u1da9", "u1daa",
   "u1dab", "u1dac", "u1dad", "u1dae", "u1daf", "u1db0", "u1db1", "u1db2", "u1db3",
   "u1db4", "u1db5", "u1db6", "u1db7", "u1db8", "u1db9", "u1dba", "u1dbb", "u1dbc",
   "u1dbd", "u1dbe", "u1dbf", "u1dc0", "u1dc1", "u1dc2", "u1dc3", "u1dc4", "u1dc5",
   "u1dc6", "u1dc7", "u1dc8", "u1dc9", "u1dca", "u1dcb", "u1dcc", "u1dcd", "u1dce",
   "u1dcf", "u1dd0", "u1dd1", "u1dd2", "u1dd3", "u1dd4", "u1dd5", "u1dd6", "u1dd7",
   "u1dd8", "u1dd9", "u1dda", "u1ddb", "u1ddc", "u1ddd", "u1dde", "u1ddf", "u1de0",
   "u1de1", "u1de2", "u1de3", "u1de4", "u1de5", "u1de6", "u1de7", "u1de8", "u1de9",
   "u1dea", "u1deb", "u1dec", "u1ded", "u1dee", "u1def", "u1df0", "u1df1", "u1df2",
   "u1df3", "u1df4", "u1df5", "u1df6", "u1df7", "u1df8", "u1df9", "u1dfa", "u1dfb",
   "u1dfc", "u1dfd", "u1dfe", "u1dff", "u1fbd", "u1fbf", "u1fc0", "u1fc1", "u1fcd",
   "u1fce", "u1fcf", "u1fdd", "u1fde", "u1fdf", "u1fed", "u1fee", "u1fef", "u1ffd",
   "u1ffe", "u200b", "u200c", "u200d", "u200e", "u200f", "u2018", "u2019", "u2024",
   "u2027", "u202a", "u202b", "u202c", "u202d", "u202e", "u2060", "u2061", "u2062",
   "u2063", "u2064", "u2066", "u2067", "u2068", "u2069", "u206a", "u206b", "u206c",
   "u206d", "u206e", "u206f", "u2071", "u207f", "u2090", "u2091", "u2092", "u2093",
   "u2094", "u2095", "u2096", "u2097", "u2098", "u2099", "u209a", "u209b", "u209c",
   "u20d0", "u20d1", "u20d2", "u20d3", "u20d4", "u20d5", "u20d6", "u20d7", "u20d8",
   "u20d9", "u20da", "u20db", "u20dc", "u20dd", "u20de", "u20df", "u20e0", "u20e1",
   "u20e2", "u20e3", "u20e4", "u20e5", "u20e6", "u20e7", "u20e8", "u20e9", "u20ea",
   "u20eb", "u20ec", "u20ed", "u20ee", "u20ef", "u20f0", "u2c7c", "u2c7d", "u2cef",
   "u2cf0", "u2cf1", "u2d6f", "u2d7f", "u2de0", "u2de1", "u2de2", "u2de3", "u2de4",
   "u2de5", "u2de6", "u2de7", "u2de8", "u2de9", "u2dea", "u2deb", "u2dec", "u2ded",
   "u2dee", "u2def", "u2df0", "u2df1", "u2df2", "u2df3", "u2df4", "u2df5", "u2df6",
   "u2df7", "u2df8", "u2df9", "u2dfa", "u2dfb", "u2dfc", "u2dfd", "u2dfe", "u2dff",
   "u2e2f", "u3005", "u302a", "u302b", "u302c", "u302d", "u3031", "u3032", "u3033",
   "u3034", "u3035", "u303b", "u3099", "u309a", "u309b", "u309c", "u309d", "u309e",
   "u30fc", "u30fd", "u30fe", "ua015", "ua4f8", "ua4f9", "ua4fa", "ua4fb", "ua4fc",
   "ua4fd", "ua60c", "ua66f", "ua670", "ua671", "ua672", "ua674", "ua675", "ua676",
   "ua677", "ua678", "ua679", "ua67a", "ua67b", "ua67c", "ua67d", "ua67f", "ua69c",
   "ua69d", "ua69e", "ua69f", "ua6f0", "ua6f1", "ua700", "ua701", "ua702", "ua703",
   "ua704", "ua705", "ua706", "ua707", "ua708", "ua709", "ua70a", "ua70b", "ua70c",
   "ua70d", "ua70e", "ua70f", "ua710", "ua711", "ua712", "ua713", "ua714", "ua715",
   "ua716", "ua717", "ua718", "ua719", "ua71a", "ua71b", "ua71c", "ua71d", "ua71e",
   "ua71f", "ua720", "ua721", "ua770", "ua788", "ua789", "ua78a", "ua7f2", "ua7f3",
   "ua7f4", "ua7f8", "ua7f9", "ua802", "ua806", "ua80b", "ua825", "ua826", "ua82c",
   "ua8c4", "ua8c5", "ua8e0", "ua8e1", "ua8e2", "ua8e3", "ua8e4", "ua8e5", "ua8e6",
   "ua8e7", "ua8e8", "ua8e9", "ua8ea", "ua8eb", "ua8ec", "ua8ed", "ua8ee", "ua8ef",
   "ua8f0", "ua8f1", "ua8ff", "ua926", "ua927", "ua928", "ua929", "ua92a", "ua92b",
   "ua92c", "ua92d", "ua947", "ua948", "ua949", "ua94a", "ua94b", "ua94c", "ua94d",
   "ua94e", "ua94f", "ua950", "ua951", "ua980", "ua981", "ua982", "ua9b3", "ua9b6",
   "ua9b7", "ua9b8", "ua9b9", "ua9bc", "ua9bd", "ua9cf", "ua9e5", "ua9e6", "uaa29",
   "uaa2a", "uaa2b", "uaa2c", "uaa2d", "uaa2e", "uaa31", "uaa32", "uaa35", "uaa36",
   "uaa43", "uaa4c", "uaa70", "uaa7c", "uaab0", "uaab2", "uaab3", "uaab4", "uaab7",
   "uaab8", "uaabe", "uaabf", "uaac1", "uaadd", "uaaec", "uaaed", "uaaf3", "uaaf4",
   "uaaf6", "uab5b", "uab5c", "uab5d", "uab5e", "uab5f", "uab69", "uab6a", "uab6b",
   "uabe5", "uabe8", "uabed", "ufb1e", "ufbb2", "ufbb3", "ufbb4", "ufbb5", "ufbb6",
   "ufbb7", "ufbb8", "ufbb9", "ufbba", "ufbbb", "ufbbc", "ufbbd", "ufbbe", "ufbbf",
   "ufbc0", "ufbc1", "ufbc2", "ufe00", "ufe01", "ufe02", "ufe03", "ufe04", "ufe05",
   "ufe06", "ufe07", "ufe08", "ufe09", "ufe0a", "ufe0b", "ufe0c", "ufe0d", "ufe0e",
   "ufe0f", "ufe13", "ufe20", "ufe21", "ufe22", "ufe23", "ufe24", "ufe25", "ufe26",
   "ufe27", "ufe28", "ufe29", "ufe2a", "ufe2b", "ufe2c", "ufe2d", "ufe2e", "ufe2f",
   "ufe52", "ufe55", "ufeff", "uff07", "uff0e", "uff1a", "uff3e", "uff40", "uff70",
   "uff9e", "uff9f", "uffe3", "ufff9", "ufffa", "ufffb", "u101fd", "u102e0", "u10376",
   "u10377", "u10378", "u10379", "u1037a", "u10780", "u10781", "u10782", "u10783",
   "u10784", "u10785", "u10787", "u10788", "u10789", "u1078a", "u1078b", "u1078c",
   "u1078d", "u1078e", "u1078f", "u10790", "u10791", "u10792", "u10793", "u10794",
   "u10795", "u10796", "u10797", "u10798", "u10799", "u1079a", "u1079b", "u1079c",
   "u1079d", "u1079e", "u1079f", "u107a0", "u107a1", "u107a2", "u107a3", "u107a4",
   "u107a5", "u107a6", "u107a7", "u107a8", "u107a9", "u107aa", "u107ab", "u107ac",
   "u107ad", "u107ae", "u107af", "u107b0", "u107b2", "u107b3", "u107b4", "u107b5",
   "u107b6", "u107b7", "u107b8", "u107b9", "u107ba", "u10a01", "u10a02", "u10a03",
   "u10a05", "u10a06", "u10a0c", "u10a0d", "u10a0e", "u10a0f", "u10a38", "u10a39",
   "u10a3a", "u10a3f", "u10ae5", "u10ae6", "u10d24", "u10d25", "u10d26", "u10d27",
   "u10eab", "u10eac", "u10f46", "u10f47", "u10f48", "u10f49", "u10f4a", "u10f4b",
   "u10f4c", "u10f4d", "u10f4e", "u10f4f", "u10f50", "u10f82", "u10f83", "u10f84",
   "u10f85", "u11001", "u11038", "u11039", "u1103a", "u1103b", "u1103c", "u1103d",
   "u1103e", "u1103f", "u11040", "u11041", "u11042", "u11043", "u11044", "u11045",
   "u11046", "u11070", "u11073", "u11074", "u1107f", "u11080", "u11081", "u110b3",
   "u110b4", "u110b5", "u110b6", "u110b9", "u110ba", "u110bd", "u110c2", "u110cd",
   "u11100", "u11101", "u11102", "u11127", "u11128", "u11129", "u1112a", "u1112b",
   "u1112d", "u1112e", "u1112f", "u11130", "u11131", "u11132", "u11133", "u11134",
   "u11173", "u11180", "u11181", "u111b6", "u111b7", "u111b8", "u111b9", "u111ba",
   "u111bb", "u111bc", "u111bd", "u111be", "u111c9", "u111ca", "u111cb", "u111cc",
   "u111cf", "u1122f", "u11230", "u11231", "u11234", "u11236", "u11237", "u1123e",
   "u112df", "u112e3", "u112e4", "u112e5", "u112e6", "u112e7", "u112e8", "u112e9",
   "u112ea", "u11300", "u11301", "u1133b", "u1133c", "u11340", "u11366", "u11367",
   "u11368", "u11369", "u1136a", "u1136b", "u1136c", "u11370", "u11371", "u11372",
   "u11373", "u11374", "u11438", "u11439", "u1143a", "u1143b", "u1143c", "u1143d",
   "u1143e", "u1143f", "u11442", "u11443", "u11444", "u11446", "u1145e", "u114b3",
   "u114b4", "u114b5", "u114b6", "u114b7", "u114b8", "u114ba", "u114bf", "u114c0",
   "u114c2", "u114c3", "u115b2", "u115b3", "u115b4", "u115b5", "u115bc", "u115bd",
   "u115bf", "u115c0", "u115dc", "u115dd", "u11633", "u11634", "u11635", "u11636",
   "u11637", "u11638", "u11639", "u1163a", "u1163d", "u1163f", "u11640", "u116ab",
   "u116ad", "u116b0", "u116b1", "u116b2", "u116b3", "u116b4", "u116b5", "u116b7",
   "u1171d", "u1171e", "u1171f", "u11722", "u11723", "u11724", "u11725", "u11727",
   "u11728", "u11729", "u1172a", "u1172b", "u1182f", "u11830", "u11831", "u11832",
   "u11833", "u11834", "u11835", "u11836", "u11837", "u11839", "u1183a", "u1193b",
   "u1193c", "u1193e", "u11943", "u119d4", "u119d5", "u119d6", "u119d7", "u119da",
   "u119db", "u119e0", "u11a01", "u11a02", "u11a03", "u11a04", "u11a05", "u11a06",
   "u11a07", "u11a08", "u11a09", "u11a0a", "u11a33", "u11a34", "u11a35", "u11a36",
   "u11a37", "u11a38", "u11a3b", "u11a3c", "u11a3d", "u11a3e", "u11a47", "u11a51",
   "u11a52", "u11a53", "u11a54", "u11a55", "u11a56", "u11a59", "u11a5a", "u11a5b",
   "u11a8a", "u11a8b", "u11a8c", "u11a8d", "u11a8e", "u11a8f", "u11a90", "u11a91",
   "u11a92", "u11a93", "u11a94", "u11a95", "u11a96", "u11a98", "u11a99", "u11c30",
   "u11c31", "u11c32", "u11c33", "u11c34", "u11c35", "u11c36", "u11c38", "u11c39",
   "u11c3a", "u11c3b", "u11c3c", "u11c3d", "u11c3f", "u11c92", "u11c93", "u11c94",
   "u11c95", "u11c96", "u11c97", "u11c98", "u11c99", "u11c9a", "u11c9b", "u11c9c",
   "u11c9d", "u11c9e", "u11c9f", "u11ca0", "u11ca1", "u11ca2", "u11ca3", "u11ca4",
   "u11ca5", "u11ca6", "u11ca7", "u11caa", "u11cab", "u11cac", "u11cad", "u11cae",
   "u11caf", "u11cb0", "u11cb2", "u11cb3", "u11cb5", "u11cb6", "u11d31", "u11d32",
   "u11d33", "u11d34", "u11d35", "u11d36", "u11d3a", "u11d3c", "u11d3d", "u11d3f",
   "u11d40", "u11d41", "u11d42", "u11d43", "u11d44", "u11d45", "u11d47", "u11d90",
   "u11d91", "u11d95", "u11d97", "u11ef3", "u11ef4", "u13430", "u13431", "u13432",
   "u13433", "u13434", "u13435", "u13436", "u13437", "u13438", "u16af0", "u16af1",
   "u16af2", "u16af3", "u16af4", "u16b30", "u16b31", "u16b32", "u16b33", "u16b34",
   "u16b35", "u16b36", "u16b40", "u16b41", "u16b42", "u16b43", "u16f4f", "u16f8f",
   "u16f90", "u16f91", "u16f92", "u16f93", "u16f94", "u16f95", "u16f96", "u16f97",
   "u16f98", "u16f99", "u16f9a", "u16f9b", "u16f9c", "u16f9d", "u16f9e", "u16f9f",
   "u16fe0", "u16fe1", "u16fe3", "u16fe4", "u1aff0", "u1aff1", "u1aff2", "u1aff3",
   "u1aff5", "u1aff6", "u1aff7", "u1aff8", "u1aff9", "u1affa", "u1affb", "u1affd",
   "u1affe", "u1bc9d", "u1bc9e", "u1bca0", "u1bca1", "u1bca2", "u1bca3", "u1cf00",
   "u1cf01", "u1cf02", "u1cf03", "u1cf04", "u1cf05", "u1cf06", "u1cf07", "u1cf08",
   "u1cf09", "u1cf0a", "u1cf0b", "u1cf0c", "u1cf0d", "u1cf0e", "u1cf0f", "u1cf10",
   "u1cf11", "u1cf12", "u1cf13", "u1cf14", "u1cf15", "u1cf16", "u1cf17", "u1cf18",
   "u1cf19", "u1cf1a", "u1cf1b", "u1cf1c", "u1cf1d", "u1cf1e", "u1cf1f", "u1cf20",
   "u1cf21", "u1cf22", "u1cf23", "u1cf24", "u1cf25", "u1cf26", "u1cf27", "u1cf28",
   "u1cf29", "u1cf2a", "u1cf2b", "u1cf2c", "u1cf2d", "u1cf30", "u1cf31", "u1cf32",
   "u1cf33", "u1cf34", "u1cf35", "u1cf36", "u1cf37", "u1cf38", "u1cf39", "u1cf3a",
   "u1cf3b", "u1cf3c", "u1cf3d", "u1cf3e", "u1cf3f", "u1cf40", "u1cf41", "u1cf42",
   "u1cf43", "u1cf44", "u1cf45", "u1cf46", "u1d167", "u1d168", "u1d169", "u1d173",
   "u1d174", "u1d175", "u1d176", "u1d177", "u1d178", "u1d179", "u1d17a", "u1d17b",
   "u1d17c", "u1d17d", "u1d17e", "u1d17f", "u1d180", "u1d181", "u1d182", "u1d185",
   "u1d186", "u1d187", "u1d188", "u1d189", "u1d18a", "u1d18b", "u1d1aa", "u1d1ab",
   "u1d1ac", "u1d1ad", "u1d242", "u1d243", "u1d244", "u1da00", "u1da01", "u1da02",
   "u1da03", "u1da04", "u1da05", "u1da06", "u1da07", "u1da08", "u1da09", "u1da0a",
   "u1da0b", "u1da0c", "u1da0d", "u1da0e", "u1da0f", "u1da10", "u1da11", "u1da12",
   "u1da13", "u1da14", "u1da15", "u1da16", "u1da17", "u1da18", "u1da19", "u1da1a",
   "u1da1b", "u1da1c", "u1da1d", "u1da1e", "u1da1f", "u1da20", "u1da21", "u1da22",
   "u1da23", "u1da24", "u1da25", "u1da26", "u1da27", "u1da28", "u1da29", "u1da2a",
   "u1da2b", "u1da2c", "u1da2d", "u1da2e", "u1da2f", "u1da30", "u1da31", "u1da32",
   "u1da33", "u1da34", "u1da35", "u1da36", "u1da3b", "u1da3c", "u1da3d", "u1da3e",
   "u1da3f", "u1da40", "u1da41", "u1da42", "u1da43", "u1da44", "u1da45", "u1da46",
   "u1da47", "u1da48", "u1da49", "u1da4a", "u1da4b", "u1da4c", "u1da4d", "u1da4e",
   "u1da4f", "u1da50", "u1da51", "u1da52", "u1da53", "u1da54", "u1da55", "u1da56",
   "u1da57", "u1da58", "u1da59", "u1da5a", "u1da5b", "u1da5c", "u1da5d", "u1da5e",
   "u1da5f", "u1da60", "u1da61", "u1da62", "u1da63", "u1da64", "u1da65", "u1da66",
   "u1da67", "u1da68", "u1da69", "u1da6a", "u1da6b", "u1da6c", "u1da75", "u1da84",
   "u1da9b", "u1da9c", "u1da9d", "u1da9e", "u1da9f", "u1daa1", "u1daa2", "u1daa3",
   "u1daa4", "u1daa5", "u1daa6", "u1daa7", "u1daa8", "u1daa9", "u1daaa", "u1daab",
   "u1daac", "u1daad", "u1daae", "u1daaf", "u1e000", "u1e001", "u1e002", "u1e003",
   "u1e004", "u1e005", "u1e006", "u1e008", "u1e009", "u1e00a", "u1e00b", "u1e00c",
   "u1e00d", "u1e00e", "u1e00f", "u1e010", "u1e011", "u1e012", "u1e013", "u1e014",
   "u1e015", "u1e016", "u1e017", "u1e018", "u1e01b", "u1e01c", "u1e01d", "u1e01e",
   "u1e01f", "u1e020", "u1e021", "u1e023", "u1e024", "u1e026", "u1e027", "u1e028",
   "u1e029", "u1e02a", "u1e130", "u1e131", "u1e132", "u1e133", "u1e134", "u1e135",
   "u1e136", "u1e137", "u1e138", "u1e139", "u1e13a", "u1e13b", "u1e13c", "u1e13d",
   "u1e2ae", "u1e2ec", "u1e2ed", "u1e2ee", "u1e2ef", "u1e8d0", "u1e8d1", "u1e8d2",
   "u1e8d3", "u1e8d4", "u1e8d5", "u1e8d6", "u1e944", "u1e945", "u1e946", "u1e947",
   "u1e948", "u1e949", "u1e94a", "u1e94b", "u1f3fb", "u1f3fc", "u1f3fd", "u1f3fe",
   "u1f3ff", "ue0001", "ue0020", "ue0021", "ue0022", "ue0023", "ue0024", "ue0025",
   "ue0026", "ue0027", "ue0028", "ue0029", "ue002a", "ue002b", "ue002c", "ue002d",
   "ue002e", "ue002f", "ue0030", "ue0031", "ue0032", "ue0033", "ue0034", "ue0035",
   "ue0036", "ue0037", "ue0038", "ue0039", "ue003a", "ue003b", "ue003c", "ue003d",
   "ue003e", "ue003f", "ue0040", "ue0041", "ue0042", "ue0043", "ue0044", "ue0045",
   "ue0046", "ue0047", "ue0048", "ue0049", "ue004a", "ue004b", "ue004c", "ue004d",
   "ue004e", "ue004f", "ue0050", "ue0051", "ue0052", "ue0053", "ue0054", "ue0055",
   "ue0056", "ue0057", "ue0058", "ue0059", "ue005a", "ue005b", "ue005c", "ue005d",
   "ue005e", "ue005f", "ue0060", "ue0061", "ue0062", "ue0063", "ue0064", "ue0065",
   "ue0066", "ue0067", "ue0068", "ue0069", "ue006a", "ue006b", "ue006c", "ue006d",
   "ue006e", "ue006f", "ue0070", "ue0071", "ue0072", "ue0073", "ue0074", "ue0075",
   "ue0076", "ue0077", "ue0078", "ue0079", "ue007a", "ue007b", "ue007c", "ue007d",
   "ue007e", "ue007f", "ue0100", "ue0101", "ue0102", "ue0103", "ue0104", "ue0105",
   "ue0106", "ue0107", "ue0108", "ue0109", "ue010a", "ue010b", "ue010c", "ue010d",
   "ue010e", "ue010f", "ue0110", "ue0111", "ue0112", "ue0113", "ue0114", "ue0115",
   "ue0116", "ue0117", "ue0118", "ue0119", "ue011a", "ue011b", "ue011c", "ue011d",
   "ue011e", "ue011f", "ue0120", "ue0121", "ue0122", "ue0123", "ue0124", "ue0125",
   "ue0126", "ue0127", "ue0128", "ue0129", "ue012a", "ue012b", "ue012c", "ue012d",
   "ue012e", "ue012f", "ue0130", "ue0131", "ue0132", "ue0133", "ue0134", "ue0135",
   "ue0136", "ue0137", "ue0138", "ue0139", "ue013a", "ue013b", "ue013c", "ue013d",
   "ue013e", "ue013f", "ue0140", "ue0141", "ue0142", "ue0143", "ue0144", "ue0145",
   "ue0146", "ue0147", "ue0148", "ue0149", "ue014a", "ue014b", "ue014c", "ue014d",
   "ue014e", "ue014f", "ue0150", "ue0151", "ue0152", "ue0153", "ue0154", "ue0155",
   "ue0156", "ue0157", "ue0158", "ue0159", "ue015a", "ue015b", "ue015c", "ue015d",
   "ue015e", "ue015f", "ue0160", "ue0161", "ue0162", "ue0163", "ue0164", "ue0165",
   "ue0166", "ue0167", "ue0168", "ue0169", "ue016a", "ue016b", "ue016c", "ue016d",
   "ue016e", "ue016f", "ue0170", "ue0171", "ue0172", "ue0173", "ue0174", "ue0175",
   "ue0176", "ue0177", "ue0178", "ue0179", "ue017a", "ue017b", "ue017c", "ue017d",
   "ue017e", "ue017f", "ue0180", "ue0181", "ue0182", "ue0183", "ue0184", "ue0185",
   "ue0186", "ue0187", "ue0188", "ue0189", "ue018a", "ue018b", "ue018c", "ue018d",
   "ue018e", "ue018f", "ue0190", "ue0191", "ue0192", "ue0193", "ue0194", "ue0195",
   "ue0196", "ue0197", "ue0198", "ue0199", "ue019a", "ue019b", "ue019c", "ue019d",
   "ue019e", "ue019f", "ue01a0", "ue01a1", "ue01a2", "ue01a3", "ue01a4", "ue01a5",
   "ue01a6", "ue01a7", "ue01a8", "ue01a9", "ue01aa", "ue01ab", "ue01ac", "ue01ad",
   "ue01ae", "ue01af", "ue01b0", "ue01b1", "ue01b2", "ue01b3", "ue01b4", "ue01b5",
   "ue01b6", "ue01b7", "ue01b8", "ue01b9", "ue01ba", "ue01bb", "ue01bc", "ue01bd",
   "ue01be", "ue01bf", "ue01c0", "ue01c1", "ue01c2", "ue01c3", "ue01c4", "ue01c5",
   "ue01c6", "ue01c7", "ue01c8", "ue01c9", "ue01ca", "ue01cb", "ue01cc", "ue01cd",
   "ue01ce", "ue01cf", "ue01d0", "ue01d1", "ue01d2", "ue01d3", "ue01d4", "ue01d5",
   "ue01d6", "ue01d7", "ue01d8", "ue01d9", "ue01da", "ue01db", "ue01dc", "ue01dd",
   "ue01de", "ue01df", "ue01e0", "ue01e1", "ue01e2", "ue01e3", "ue01e4", "ue01e5",
   "ue01e6", "ue01e7", "ue01e8", "ue01e9", "ue01ea", "ue01eb", "ue01ec", "ue01ed",
   "ue01ee", "ue01ef"}

\* the cased characters outside ASCII that the rule does not skip
CasedOutsideAscii ==
  {"u00aa", "u00b5", "u00ba", "u00c0", "u00c1", "u00c2", "u00c3", "u00c4", "u00c5",
   "u00c6", "u00c7", "u00c8", "u00c9", "u00ca", "u00cb", "u00cc", "u00cd", "u00ce",
   "u00cf", "u00d0", "u00d1", "u00d2", "u00d3", "u00d4", "u00d5", "u00d6", "u00d8",
   "u00d9", "u00da", "u00db", "u00dc", "u00dd", "u00de", "u00df", "u00e0", "u00e1",
   "u00e2", "u00e3", "u00e4", "u00e5", "u00e6", "u00e7", "u00e8", "u00e9", "u00ea",
   "u00eb", "u00ec", "u00ed", "u00ee", "u00ef", "u00f0", "u00f1", "u00f2", "u00f3",
   "u00f4", "u00f5", "u00f6", "u00f8", "u00f9", "u00fa", "u00fb", "u00fc", "u00fd",
   "u00fe", "u00ff", "u0100", "u0101", "u0102", "u0103", "u0104", "u0105", "u0106",
   "u0107", "u0108", "u0109", "u010a", "u010b", "u010c", "u010d", "u010e", "u010f",
   "u0110", "u0111", "u0112", "u0113", "u0114", "u0115", "u0116", "u0117", "u0118",
   "u0119", "u011a", "u011b", "u011c", "u011d", "u011e", "u011f", "u0120", "u0121",
   "u0122", "u0123", "u0124", "u0125", "u0126", "u0127", "u0128", "u0129", "u012a",
   "u012b", "u012c", "u012d", "u012e", "u012f", "u0130", "u0131", "u0132", "u0133",
   "u0134", "u0135", "u0136", "u0137", "u0138", "u0139", "u013a", "u013b", "u013c",
   "u013d", "u013e", "u013f", "u0140", "u0141", "u0142", "u0143", "u0144", "u0145",
   "u0146", "u0147", "u0148", "u0149", "u014a", "u014b", "u014c", "u014d", "u014e",
   "u014f", "u0150", "u0151", "u0152", "u0153", "u0154", "u0155", "u0156", "u0157",
   "u0158", "u0159", "u015a", "u015b", "u015c", "u015d", "u015e", "u015f", "u0160",
   "u0161", "u0162", "u0163", "u0164", "u0165", "u0166", "u0167", "u0168", "u0169",
   "u016a", "u016b", "u016c", "u016d", "u016e", "u016f", "u0170", "u0171", "u0172",
   "u0173", "u0174", "u0175", "u0176", "u0177", "u0178", "u0179", "u017a", "u017b",
   "u017c", "u017d", "u017e", "u017f", "u0180", "u0181", "u0182", "u0183", "u0184",
   "u0185", "u0186", "u0187", "u0188", "u0189", "u018a", "u018b", "u018c", "u018d",
   "u018e", "u018f", "u0190", "u0191", "u0192", "u0193", "u0194", "u0195", "u0196",
   "u0197", "u0198", "u0199", "u019a", "u019b", "u019c", "u019d", "u019e", "u019f",
   "u01a0", "u01a1", "u01a2", "u01a3", "u01a4", "u01a5", "u01a6", "u01a7", "u01a8",
   "u01a9", "u01aa", "u01ab", "u01ac", "u01ad", "u01ae", "u01af", "u01b0", "u01b1",
   "u01b2", "u01b3", "u01b4", "u01b5", "u01b6", "u01b7", "u01b8", "u01b9", "u01ba",
   "u01bc", "u01bd", "u01be", "u01bf", "u01c4", "u01c5", "u01c6", "u01c7", "u01c8",
   "u01c9", "u01ca", "u01cb", "u01cc", "u01cd", "u01ce", "u01cf", "u01d0", "u01d1",
   "u01d2", "u01d3", "u01d4", "u01d5", "u01d6", "u01d7", "u01d8", "u01d9", "u01da",
   "u01db", "u01dc", "u01dd", "u01de", "u01df", "u01e0", "u01e1", "u01e2", "u01e3",
   "u01e4", "u01e5", "u01e6", "u01e7", "u01e8", "u01e9", "u01ea", "u01eb", "u01ec",
   "u01ed", "u01ee", "u01ef", "u01f0", "u01f1", "u01f2", "u01f3", "u01f4", "u01f5",
   "u01f6", "u01f7", "u01f8", "u01f9", "u01fa", "u01fb", "u01fc", "u01fd", "u01fe",
   "u01ff", "u0200", "u0201", "u0202", "u0203", "u0204", "u0205", "u0206", "u0207",
   "u0208", "u0209", "u020a", "u020b", "u020c", "u020d", "u020e", "u020f", "u0210",
   "u0211", "u0212", "u0213", "u0214", "u0215", "u0216", "u0217", "u0218", "u0219",
   "u021a", "u021b", "u021c", "u021d", "u021e", "u021f", "u0220", "u0221", "u0222",
   "u0223", "u0224", "u0225", "u0226", "u0227", "u0228", "u0229", "u022a", "u022b",
   "u022c", "u022d", "u022e", "u022f", "u0230", "u0231", "u0232", "u0233", "u0234",
   "u0235", "u0236", "u0237", "u0238", "u0239", "u023a", "u023b", "u023c", "u023d",
   "u023e", "u023f", "u0240", "u0241", "u0242", "u0243", "u0244", "u0245", "u0246",
   "u0247", "u0248", "u0249", "u024a", "u024b", "u024c", "u024d", "u024e", "u024f",
   "u0250", "u0251", "u0252", "u0253", "u0254", "u0255", "u0256", "u0257", "u0258",
   "u0259", "u025a", "u025b", "u025c", "u025d", "u025e", "u025f", "u0260", "u0261",
   "u0262", "u0263", "u0264", "u0265", "u0266", "u0267", "u0268", "u0269", "u026a",
   "u026b", "u026c", "u026d", "u026e", "u026f", "u0270", "u0271", "u0272", "u0273",
   "u0274", "u0275", "u0276", "u0277", "u0278", "u0279", "u027a", "u027b", "u027c",
   "u027d", "u027e", "u027f", "u0280", "u0281", "u0282", "u0283", "u0284", "u0285",
   "u0286", "u0287", "u0288", "u0289", "u028a", "u028b", "u028c", "u028d", "u028e",
   "u028f", "u0290", "u0291", "u0292", "u0293", "u0295", "u0296", "u0297", "u0298",
   "u0299", "u029a", "u029b", "u029c", "u029d", "u029e", "u029f", "u02a0", "u02a1",
   "u02a2", "u02a3", "u02a4", "u02a5", "u02a6", "u02a7", "u02a8", "u02a9", "u02aa",
   "u02ab", "u02ac", "u02ad", "u02ae", "u02af", "u0370", "u0371", "u0372", "u0373",
   "u0376", "u0377", "u037b", "u037c", "u037d", "u037f", "u0386", "u0388", "u0389",
   "u038a", "u038c", "u038e", "u038f", "u0390", "u0391", "u0392", "u0393", "u0394",
   "u0395", "u0396", "u0397", "u0398", "u0399", "u039a", "u039b", "u039c", "u039d",
   "u039e", "u039f", "u03a0", "u03a1", "u03a3", "u03a4", "u03a5", "u03a6", "u03a7",
   "u03a8", "u03a9", "u03aa", "u03ab", "u03ac", "u03ad", "u03ae", "u03af", "u03b0",
   "u03b1", "u03b2", "u03b3", "u03b4", "u03b5", "u03b6", "u03b7", "u03b8", "u03b9",
   "u03ba", "u03bb", "u03bc", "u03bd", "u03be", "u03bf", "u03c0", "u03c1", "u03c2",
   "u03c3", "u03c4", "u03c5", "u03c6", "u03c7", "u03c8", "u03c9", "u03ca", "u03cb",
   "u03cc", "u03cd", "u03ce", "u03cf", "u03d0", "u03d1", "u03d2", "u03d3", "u03d4",
   "u03d5", "u03d6", "u03d7", "u03d8", "u03d9", "u03da", "u03db", "u03dc", "u03dd",
   "u03de", "u03df", "u03e0", "u03e1", "u03e2", "u03e3", "u03e4", "u03e5", "u03e6",
   "u03e7", "u03e8", "u03e9", "u03ea", "u03eb", "u03ec", "u03ed", "u03ee", "u03ef",
   "u03f0", "u03f1", "u03f2", "u03f3", "u03f4", "u03f5", "u03f7", "u03f8", "u03f9",
   "u03fa", "u03fb", "u03fc", "u03fd", "u03fe", "u03ff", "u0400", "u0401", "u0402",
   "u0403", "u0404", "u0405", "u0406", "u0407", "u0408", "u0409", "u040a", "u040b",
   "u040c", "u040d", "u040e", "u040f", "u0410", "u0411", "u0412", "u0413", "u0414",
   "u0415", "u0416", "u0417", "u0418", "u0419", "u041a", "u041b", "u041c", "u041d",
   "u041e", "u041f", "u0420", "u0421", "u0422", "u0423", "u0424", "u0425", "u0426",
   "u0427", "u0428", "u0429", "u042a", "u042b", "u042c", "u042d", "u042e", "u042f",
   "u0430", "u0431", "u0432", "u0433", "u0434", "u0435", "u0436", "u0437", "u0438",
   "u0439", "u043a", "u043b", "u043c", "u043d", "u043e", "u043f", "u0440", "u0441",
   "u0442", "u0443", "u0444", "u0445", "u0446", "u0447", "u0448", "u0449", "u044a",
   "u044b", "u044c", "u044d", "u044e", "u044f", "u0450", "u0451", "u0452", "u0453",
   "u0454", "u0455", "u0456", "u0457", "u0458", "u0459", "u045a", "u045b", "u045c",
   "u045d", "u045e", "u045f", "u0460", "u0461", "u0462", "u0463", "u0464", "u0465",
   "u0466", "u0467", "u0468", "u0469", "u046a", "u046b", "u046c", "u046d", "u046e",
   "u046f", "u0470", "u0471", "u0472", "u0473", "u0474", "u0475", "u0476", "u0477",
   "u0478", "u0479", "u047a", "u047b", "u047c", "u047d", "u047e", "u047f", "u0480",
   "u0481", "u048a", "u048b", "u048c", "u048d", "u048e", "u048f", "u0490", "u0491",
   "u0492", "u0493", "u0494", "u0495", "u0496", "u0497", "u0498", "u0499", "u049a",
   "u049b", "u049c", "u049d", "u049e", "u049f", "u04a0", "u04a1", "u04a2", "u04a3",
   "u04a4", "u04a5", "u04a6", "u04a7", "u04a8", "u04a9", "u04aa", "u04ab", "u04ac",
   "u04ad", "u04ae", "u04af", "u04b0", "u04b1", "u04b2", "u04b3", "u04b4", "u04b5",
   "u04b6", "u04b7", "u04b8", "u04b9", "u04ba", "u04bb", "u04bc", "u04bd", "u04be",
   "u04bf", "u04c0", "u04c1", "u04c2", "u04c3", "u04c4", "u04c5", "u04c6", "u04c7",
   "u04c8", "u04c9", "u04ca", "u04cb", "u04cc", "u04cd", "u04ce", "u04cf", "u04d0",
   "u04d1", "u04d2", "u04d3", "u04d4", "u04d5", "u04d6", "u04d7", "u04d8", "u04d9",
   "u04da", "u04db", "u04dc", "u04dd", "u04de", "u04df", "u04e0", "u04e1", "u04e2",
   "u04e3", "u04e4", "u04e5", "u04e6", "u04e7", "u04e8", "u04e9", "u04ea", "u04eb",
   "u04ec", "u04ed", "u04ee", "u04ef", "u04f0", "u04f1", "u04f2", "u04f3", "u04f4",
   "u04f5", "u04f6", "u04f7", "u04f8", "u04f9", "u04fa", "u04fb", "u04fc", "u04fd",
   "u04fe", "u04ff", "u0500", "u0501", "u0502", "u0503", "u0504", "u0505", "u0506",
   "u0507", "u0508", "u0509", "u050a", "u050b", "u050c", "u050d", "u050e", "u050f",
   "u0510", "u0511", "u0512", "u0513", "u0514", "u0515", "u0516", "u0517", "u0518",
   "u0519", "u051a", "u051b", "u051c", "u051d", "u051e", "u051f", "u0520", "u0521",
   "u0522", "u0523", "u0524", "u0525", "u0526", "u0527", "u0528", "u0529", "u052a",
   "u052b", "u052c", "u052d", "u052e", "u052f", "u0531", "u0532", "u0533", "u0534",
   "u0535", "u0536", "u0537", "u0538", "u0539", "u053a", "u053b", "u053c", "u053d",
   "u053e", "u053f", "u0540", "u0541", "u0542", "u0543", "u0544", "u0545", "u0546",
   "u0547", "u0548", "u0549", "u054a", "u054b", "u054c", "u054d", "u054e", "u054f",
   "u0550", "u0551", "u0552", "u0553", "u0554", "u0555", "u0556", "u0560", "u0561",
   "u0562", "u0563", "u0564", "u0565", "u0566", "u0567", "u0568", "u0569", "u056a",
   "u056b", "u056c", "u056d", "u056e", "u056f", "u0570", "u0571", "u0572", "u0573",
   "u0574", "u0575", "u0576", "u0577", "u0578", "u0579", "u057a", "u057b", "u057c",
   "u057d", "u057e", "u057f", "u0580", "u0581", "u0582", "u0583", "u0584", "u0585",
   "u0586", "u0587", "u0588", "u10a0", "u10a1", "u10a2", "u10a3", "u10a4", "u10a5",
   "u10a6", "u10a7", "u10a8", "u10a9", "u10aa", "u10ab", "u10ac", "u10ad", "u10ae",
   "u10af", "u10b0", "u10b1", "u10b2", "u10b3", "u10b4", "u10b5", "u10b6", "u10b7",
   "u10b8", "u10b9", "u10ba", "u10bb", "u10bc", "u10bd", "u10be", "u10bf", "u10c0",
   "u10c1", "u10c2", "u10c3", "u10c4", "u10c5", "u10c7", "u10cd", "u10d0", "u10d1",
   "u10d2", "u10d3", "u10d4", "u10d5", "u10d6", "u10d7", "u10d8", "u10d9", "u10da",
   "u10db", "u10dc", "u10dd", "u10de", "u10df", "u10e0", "u10e1", "u10e2", "u10e3",
   "u10e4", "u10e5", "u10e6", "u10e7", "u10e8", "u10e9", "u10ea", "u10eb", "u10ec",
   "u10ed", "u10ee", "u10ef", "u10f0", "u10f1", "u10f2", "u10f3", "u10f4", "u10f5",
   "u10f6", "u10f7", "u10f8", "u10f9", "u10fa", "u10fd", "u10fe", "u10ff", "u13a0",
   "u13a1", "u13a2", "u13a3", "u13a4", "u13a5", "u13a6", "u13a7", "u13a8", "u13a9",
   "u13aa", "u13ab", "u13ac", "u13ad", "u13ae", "u13af", "u13b0", "u13b1", "u13b2",
   "u13b3", "u13b4", "u13b5", "u13b6", "u13b7", "u13b8", "u13b9", "u13ba", "u13bb",
   "u13bc", "u13bd", "u13be", "u13bf", "u13c0", "u13c1", "u13c2", "u13c3", "u13c4",
   "u13c5", "u13c6", "u13c7", "u13c8", "u13c9", "u13ca", "u13cb", "u13cc", "u13cd",
   "u13ce", "u13cf", "u13d0", "u13d1", "u13d2", "u13d3", "u13d4", "u13d5", "u13d6",
   "u13d7", "u13d8", "u13d9", "u13da", "u13db", "u13dc", "u13dd", "u13de", "u13df",
   "u13e0", "u13e1", "u13e2", "u13e3", "u13e4", "u13e5", "u13e6", "u13e7", "u13e8",
   "u13e9", "u13ea", "u13eb", "u13ec", "u13ed", "u13ee", "u13ef", "u13f0", "u13f1",
   "u13f2", "u13f3", "u13f4", "u13f5", "u13f8", "u13f9", "u13fa", "u13fb", "u13fc",
   "u13fd", "u1c80", "u1c81", "u1c82", "u1c83", "u1c84", "u1c85", "u1c86", "u1c87",
   "u1c88", "u1c90", "u1c91", "u1c92", "u1c93", "u1c94", "u1c95", "u1c96", "u1c97",
   "u1c98", "u1c99", "u1c9a", "u1c9b", "u1c9c", "u1c9d", "u1c9e", "u1c9f", "u1ca0",
   "u1ca1", "u1ca2", "u1ca3", "u1ca4", "u1ca5", "u1ca6", "u1ca7", "u1ca8", "u1ca9",
   "u1caa", "u1cab", "u1cac", "u1cad", "u1cae", "u1caf", "u1cb0", "u1cb1", "u1cb2",
   "u1cb3", "u1cb4", "u1cb5", "u1cb6", "u1cb7", "u1cb8", "u1cb9", "u1cba", "u1cbd",
   "u1cbe", "u1cbf", "u1d00", "u1d01", "u1d02", "u1d03", "u1d04", "u1d05", "u1d06",
   "u1d07", "u1d08", "u1d09", "u1d0a", "u1d0b", "u1d0c", "u1d0d", "u1d0e", "u1d0f",
   "u1d10", "u1d11", "u1d12", "u1d13", "u1d14", "u1d15", "u1d16", "u1d17", "u1d18",
   "u1d19", "u1d1a", "u1d1b", "u1d1c", "u1d1d", "u1d1e", "u1d1f", "u1d20", "u1d21",
   "u1d22", "u1d23", "u1d24", "u1d25", "u1d26", "u1d27", "u1d28", "u1d29", "u1d2a",
   "u1d2b", "u1d6b", "u1d6c", "u1d6d", "u1d6e", "u1d6f", "u1d70", "u1d71", "u1d72",
   "u1d73", "u1d74", "u1d75", "u1d76", "u1d77", "u1d79", "u1d7a", "u1d7b", "u1d7c",
   "u1d7d", "u1d7e", "u1d7f", "u1d80", "u1d81", "u1d82", "u1d83", "u1d84", "u1d85",
   "u1d86", "u1d87", "u1d88", "u1d89", "u1d8a", "u1d8b", "u1d8c", "u1d8d", "u1d8e",
   "u1d8f", "u1d90", "u1d91", "u1d92", "u1d93", "u1d94", "u1d95", "u1d96", "u1d97",
   "u1d98", "u1d99", "u1d9a", "u1e00", "u1e01", "u1e02", "u1e03", "u1e04", "u1e05",
   "u1e06", "u1e07", "u1e08", "u1e09", "u1e0a", "u1e0b", "u1e0c", "u1e0d", "u1e0e",
   "u1e0f", "u1e10", "u1e11", "u1e12", "u1e13", "u1e14", "u1e15", "u1e16", "u1e17",
   "u1e18", "u1e19", "u1e1a", "u1e1b", "u1e1c", "u1e1d", "u1e1e", "u1e1f", "u1e20",
   "u1e21", "u1e22", "u1e23", "u1e24", "u1e25", "u1e26", "u1e27", "u1e28", "u1e29",
   "u1e2a", "u1e2b", "u1e2c", "u1e2d", "u1e2e", "u1e2f", "u1e30", "u1e31", "u1e32",
   "u1e33", "u1e34", "u1e35", "u1e36", "u1e37", "u1e38", "u1e39", "u1e3a", "u1e3b",
   "u1e3c", "u1e3d", "u1e3e", "u1e3f", "u1e40", "u1e41", "u1e42", "u1e43", "u1e44",
   "u1e45", "u1e46", "u1e47", "u1e48", "u1e49", "u1e4a", "u1e4b", "u1e4c", "u1e4d",
   "u1e4e", "u1e4f", "u1e50", "u1e51", "u1e52", "u1e53", "u1e54", "u1e55", "u1e56",
   "u1e57", "u1e58", "u1e59", "u1e5a", "u1e5b", "u1e5c", "u1e5d", "u1e5e", "u1e5f",
   "u1e60", "u1e61", "u1e62", "u1e63", "u1e64", "u1e65", "u1e66", "u1e67", "u1e68",
   "u1e69", "u1e6a", "u1e6b", "u1e6c", "u1e6d", "u1e6e", "u1e6f", "u1e70", "u1e71",
   "u1e72", "u1e73", "u1e74", "u1e75", "u1e76", "u1e77", "u1e78", "u1e79", "u1e7a",
   "u1e7b", "u1e7c", "u1e7d", "u1e7e", "u1e7f", "u1e80", "u1e81", "u1e82", "u1e83",
   "u1e84", "u1e85", "u1e86", "u1e87", "u1e88", "u1e89", "u1e8a", "u1e8b", "u1e8c",
   "u1e8d", "u1e8e", "u1e8f", "u1e90", "u1e91", "u1e92", "u1e93", "u1e94", "u1e95",
   "u1e96", "u1e97", "u1e98", "u1e99", "u1e9a", "u1e9b", "u1e9c", "u1e9d", "u1e9e",
   "u1e9f", "u1ea0", "u1ea1", "u1ea2", "u1ea3", "u1ea4", "u1ea5", "u1ea6", "u1ea7",
   "u1ea8", "u1ea9", "u1eaa", "u1eab", "u1eac", "u1ead", "u1eae", "u1eaf", "u1eb0",
   "u1eb1", "u1eb2", "u1eb3", "u1eb4", "u1eb5", "u1eb6", "u1eb7", "u1eb8", "u1eb9",
   "u1eba", "u1ebb", "u1ebc", "u1ebd", "u1ebe", "u1ebf", "u1ec0", "u1ec1", "u1ec2",
   "u1ec3", "u1ec4", "u1ec5", "u1ec6", "u1ec7", "u1ec8", "u1ec9", "u1eca", "u1ecb",
   "u1ecc", "u1ecd", "u1ece", "u1ecf", "u1ed0", "u1ed1", "u1ed2", "u1ed3", "u1ed4",
   "u1ed5", "u1ed6", "u1ed7", "u1ed8", "u1ed9", "u1eda", "u1edb", "u1edc", "u1edd",
   "u1ede", "u1edf", "u1ee0", "u1ee1", "u1ee2", "u1ee3", "u1ee4", "u1ee5", "u1ee6",
   "u1ee7", "u1ee8", "u1ee9", "u1eea", "u1eeb", "u1eec", "u1eed", "u1eee", "u1eef",
   "u1ef0", "u1ef1", "u1ef2", "u1ef3", "u1ef4", "u1ef5", "u1ef6", "u1ef7", "u1ef8",
   "u1ef9", "u1efa", "u1efb", "u1efc", "u1efd", "u1efe", "u1eff", "u1f00", "u1f01",
   "u1f02", "u1f03", "u1f04", "u1f05", "u1f06", "u1f07", "u1f08", "u1f09", "u1f0a",
   "u1f0b", "u1f0c", "u1f0d", "u1f0e", "u1f0f", "u1f10", "u1f11", "u1f12", "u1f13",
   "u1f14", "u1f15", "u1f18", "u1f19", "u1f1a", "u1f1b", "u1f1c", "u1f1d", "u1f20",
   "u1f21", "u1f22", "u1f23", "u1f24", "u1f25", "u1f26", "u1f27", "u1f28", "u1f29",
   "u1f2a", "u1f2b", "u1f2c", "u1f2d", "u1f2e", "u1f2f", "u1f30", "u1f31", "u1f32",
   "u1f33", "u1f34", "u1f35", "u1f36", "u1f37", "u1f38", "u1f39", "u1f3a", "u1f3b",
   "u1f3c", "u1f3d", "u1f3e", "u1f3f", "u1f40", "u1f41", "u1f42", "u1f43", "u1f44",
   "u1f45", "u1f48", "u1f49", "u1f4a", "u1f4b", "u1f4c", "u1f4d", "u1f50", "u1f51",
   "u1f52", "u1f53", "u1f54", "u1f55", "u1f56", "u1f57", "u1f59", "u1f5b", "u1f5d",
   "u1f5f", "u1f60", "u1f61", "u1f62", "u1f63", "u1f64", "u1f65", "u1f66", "u1f67",
   "u1f68", "u1f69", "u1f6a", "u1f6b", "u1f6c", "u1f6d", "u1f6e", "u1f6f", "u1f70",
   "u1f71", "u1f72", "u1f73", "u1f74", "u1f75", "u1f76", "u1f77", "u1f78", "u1f79",
   "u1f7a", "u1f7b", "u1f7c", "u1f7d", "u1f80", "u1f81", "u1f82", "u1f83", "u1f84",
   "u1f85", "u1f86", "u1f87", "u1f88", "u1f89", "u1f8a", "u1f8b", "u1f8c", "u1f8d",
   "u1f8e", "u1f8f", "u1f90", "u1f91", "u1f92", "u1f93", "u1f94", "u1f95", "u1f96",
   "u1f97", "u1f98", "u1f99", "u1f9a", "u1f9b", "u1f9c", "u1f9d", "u1f9e", "u1f9f",
   "u1fa0", "u1fa1", "u1fa2", "u1fa3", "u1fa4", "u1fa5", "u1fa6", "u1fa7", "u1fa8",
   "u1fa9", "u1faa", "u1fab", "u1fac", "u1fad", "u1fae", "u1faf", "u1fb0", "u1fb1",
   "u1fb2", "u1fb3", "u1fb4", "u1fb6", "u1fb7", "u1fb8", "u1fb9", "u1fba", "u1fbb",
   "u1fbc", "u1fbe", "u1fc2", "u1fc3", "u1fc4", "u1fc6", "u1fc7", "u1fc8", "u1fc9",
   "u1fca", "u1fcb", "u1fcc", "u1fd0", "u1fd1", "u1fd2", "u1fd3", "u1fd6", "u1fd7",
   "u1fd8", "u1fd9", "u1fda", "u1fdb", "u1fe0", "u1fe1", "u1fe2", "u1fe3", "u1fe4",
   "u1fe5", "u1fe6", "u1fe7", "u1fe8", "u1fe9", "u1fea", "u1feb", "u1fec", "u1ff2",
   "u1ff3", "u1ff4", "u1ff6", "u1ff7", "u1ff8", "u1ff9", "u1ffa", "u1ffb", "u1ffc",
   "u2102", "u2107", "u210a", "u210b", "u210c", "u210d", "u210e", "u210f", "u2110",
   "u2111", "u2112", "u2113", "u2115", "u2119", "u211a", "u211b", "u211c", "u211d",
   "u2124", "u2126", "u2128", "u212a", "u212b", "u212c", "u212d", "u212f", "u2130",
   "u2131", "u2132", "u2133", "u2134", "u2139", "u213c", "u213d", "u213e", "u213f",
   "u2145", "u2146", "u2147", "u2148", "u2149", "u214e", "u2160", "u2161", "u2162",
   "u2163", "u2164", "u2165", "u2166", "u2167", "u2168", "u2169", "u216a", "u216b",
   "u216c", "u216d", "u216e", "u216f", "u2170", "u2171", "u2172", "u2173", "u2174",
   "u2175", "u2176", "u2177", "u2178", "u2179", "u217a", "u217b", "u217c", "u217d",
   "u217e", "u217f", "u2183", "u2184", "u24b6", "u24b7", "u24b8", "u24b9", "u24ba",
   "u24bb", "u24bc", "u24bd", "u24be", "u24bf", "u24c0", "u24c1", "u24c2", "u24c3",
   "u24c4", "u24c5", "u24c6", "u24c7", "u24c8", "u24c9", "u24ca", "u24cb", "u24cc",
   "u24cd", "u24ce", "u24cf", "u24d0", "u24d1", "u24d2", "u24d3", "u24d4", "u24d5",
   "u24d6", "u24d7", "u24d8", "u24d9", "u24da", "u24db", "u24dc", "u24dd", "u24de",
   "u24df", "u24e0", "u24e1", "u24e2", "u24e3", "u24e4", "u24e5", "u24e6", "u24e7",
   "u24e8", "u24e9", "u2c00", "u2c01", "u2c02", "u2c03", "u2c04", "u2c05", "u2c06",
   "u2c07", "u2c08", "u2c09", "u2c0a", "u2c0b", "u2c0c", "u2c0d", "u2c0e", "u2c0f",
   "u2c10", "u2c11", "u2c12", "u2c13", "u2c14", "u2c15", "u2c16", "u2c17", "u2c18",
   "u2c19", "u2c1a", "u2c1b", "u2c1c", "u2c1d", "u2c1e", "u2c1f", "u2c20", "u2c21",
   "u2c22", "u2c23", "u2c24", "u2c25", "u2c26", "u2c27", "u2c28", "u2c29", "u2c2a",
   "u2c2b", "u2c2c", "u2c2d", "u2c2e", "u2c2f", "u2c30", "u2c31", "u2c32", "u2c33",
   "u2c34", "u2c35", "u2c36", "u2c37", "u2c38", "u2c39", "u2c3a", "u2c3b", "u2c3c",
   "u2c3d", "u2c3e", "u2c3f", "u2c40", "u2c41", "u2c42", "u2c43", "u2c44", "u2c45",
   "u2c46", "u2c47", "u2c48", "u2c49", "u2c4a", "u2c4b", "u2c4c", "u2c4d", "u2c4e",
   "u2c4f", "u2c50", "u2c51", "u2c52", "u2c53", "u2c54", "u2c55", "u2c56", "u2c57",
   "u2c58", "u2c59", "u2c5a", "u2c5b", "u2c5c", "u2c5d", "u2c5e", "u2c5f", "u2c60",
   "u2c61", "u2c62", "u2c63", "u2c64", "u2c65", "u2c66", "u2c67", "u2c68", "u2c69",
   "u2c6a", "u2c6b", "u2c6c", "u2c6d", "u2c6e", "u2c6f", "u2c70", "u2c71", "u2c72",
   "u2c73", "u2c74", "u2c75", "u2c76", "u2c77", "u2c78", "u2c79", "u2c7a", "u2c7b",
   "u2c7e", "u2c7f", "u2c80", "u2c81", "u2c82", "u2c83", "u2c84", "u2c85", "u2c86",
   "u2c87", "u2c88", "u2c89", "u2c8a", "u2c8b", "u2c8c", "u2c8d", "u2c8e", "u2c8f",
   "u2c90", "u2c91", "u2c92", "u2c93", "u2c94", "u2c95", "u2c96", "u2c97", "u2c98",
   "u2c99", "u2c9a", "u2c9b", "u2c9c", "u2c9d", "u2c9e", "u2c9f", "u2ca0", "u2ca1",
   "u2ca2", "u2ca3", "u2ca4", "u2ca5", "u2ca6", "u2ca7", "u2ca8", "u2ca9", "u2caa",
   "u2cab", "u2cac", "u2cad", "u2cae", "u2caf", "u2cb0", "u2cb1", "u2cb2", "u2cb3",
   "u2cb4", "u2cb5", "u2cb6", "u2cb7", "u2cb8", "u2cb9", "u2cba", "u2cbb", "u2cbc",
   "u2cbd", "u2cbe", "u2cbf", "u2cc0", "u2cc1", "u2cc2", "u2cc3", "u2cc4", "u2cc5",
   "u2cc6", "u2cc7", "u2cc8", "u2cc9", "u2cca", "u2ccb", "u2ccc", "u2ccd", "u2cce",
   "u2ccf", "u2cd0", "u2cd1", "u2cd2", "u2cd3", "u2cd4", "u2cd5", "u2cd6", "u2cd7",
   "u2cd8", "u2cd9", "u2cda", "u2cdb", "u2cdc", "u2cdd", "u2cde", "u2cdf", "u2ce0",
   "u2ce1", "u2ce2", "u2ce3", "u2ce4", "u2ceb", "u2cec", "u2ced", "u2cee", "u2cf2",
   "u2cf3", "u2d00", "u2d01", "u2d02", "u2d03", "u2d04", "u2d05", "u2d06", "u2d07",
   "u2d08", "u2d09", "u2d0a", "u2d0b", "u2d0c", "u2d0d", "u2d0e", "u2d0f", "u2d10",
   "u2d11", "u2d12", "u2d13", "u2d14", "u2d15", "u2d16", "u2d17", "u2d18", "u2d19",
   "u2d1a", "u2d1b", "u2d1c", "u2d1d", "u2d1e", "u2d1f", "u2d20", "u2d21", "u2d22",
   "u2d23", "u2d24", "u2d25", "u2d27", "u2d2d", "ua640", "ua641", "ua642", "ua643",
   "ua644", "ua645", "ua646", "ua647", "ua648", "ua649", "ua64a", "ua64b", "ua64c",
   "ua64d", "ua64e", "ua64f", "ua650", "ua651", "ua652", "ua653", "ua654", "ua655",
   "ua656", "ua657", "ua658", "ua659", "ua65a", "ua65b", "ua65c", "ua65d", "ua65e",
   "ua65f", "ua660", "ua661", "ua662", "ua663", "ua664", "ua665", "ua666", "ua667",
   "ua668", "ua669", "ua66a", "ua66b", "ua66c", "ua66d", "ua680", "ua681", "ua682",
   "ua683", "ua684", "ua685", "ua686", "ua687", "ua688", "ua689", "ua68a", "ua68b",
   "ua68c", "ua68d", "ua68e", "ua68f", "ua690", "ua691", "ua692", "ua693", "ua694",
   "ua695", "ua696", "ua697", "ua698", "ua699", "ua69a", "ua69b", "ua722", "ua723",
   "ua724", "ua725", "ua726", "ua727", "ua728", "ua729", "ua72a", "ua72b", "ua72c",
   "ua72d", "ua72e", "ua72f", "ua730", "ua731", "ua732", "ua733", "ua734", "ua735",
   "ua736", "ua737", "ua738", "ua739", "ua73a", "ua73b", "ua73c", "ua73d", "ua73e",
   "ua73f", "ua740", "ua741", "ua742", "ua743", "ua744", "ua745", "ua746", "ua747",
   "ua748", "ua749", "ua74a", "ua74b", "ua74c", "ua74d", "ua74e", "ua74f", "ua750",
   "ua751", "ua752", "ua753", "ua754", "ua755", "ua756", "ua757", "ua758", "ua759",
   "ua75a", "ua75b", "ua75c", "ua75d", "ua75e", "ua75f", "ua760", "ua761", "ua762",
   "ua763", "ua764", "ua765", "ua766", "ua767", "ua768", "ua769", "ua76a", "ua76b",
   "ua76c", "ua76d", "ua76e", "ua76f", "ua771", "ua772", "ua773", "ua774", "ua775",
   "ua776", "ua777", "ua778", "ua779", "ua77a", "ua77b", "ua77c", "ua77d", "ua77e",
   "ua77f", "ua780", "ua781", "ua782", "ua783", "ua784", "ua785", "ua786", "ua787",
   "ua78b", "ua78c", "ua78d", "ua78e", "ua790", "ua791", "ua792", "ua793", "ua794",
   "ua795", "ua796", "ua797", "ua798", "ua799", "ua79a", "ua79b", "ua79c", "ua79d",
   "ua79e", "ua79f", "ua7a0", "ua7a1", "ua7a2", "ua7a3", "ua7a4", "ua7a5", "ua7a6",
   "ua7a7", "ua7a8", "ua7a9", "ua7aa", "ua7ab", "ua7ac", "ua7ad", "ua7ae", "ua7af",
   "ua7b0", "ua7b1", "ua7b2", "ua7b3", "ua7b4", "ua7b5", "ua7b6", "ua7b7", "ua7b8",
   "ua7b9", "ua7ba", "ua7bb", "ua7bc", "ua7bd", "ua7be", "ua7bf", "ua7c0", "ua7c1",
   "ua7c2", "ua7c3", "ua7c4", "ua7c5", "ua7c6", "ua7c7", "ua7c8", "ua7c9", "ua7ca",
   "ua7d0", "ua7d1", "ua7d3", "ua7d5", "ua7d6", "ua7d7", "ua7d8", "ua7d9", "ua7f5",
   "ua7f6", "ua7fa", "uab30", "uab31", "uab32", "uab33", "uab34", "uab35", "uab36",
   "uab37", "uab38", "uab39", "uab3a", "uab3b", "uab3c", "uab3d", "uab3e", "uab3f",
   "uab40", "uab41", "uab42", "uab43", "uab44", "uab45", "uab46", "uab47", "uab48",
   "uab49", "uab4a", "uab4b", "uab4c", "uab4d", "uab4e", "uab4f", "uab50", "uab51",
   "uab52", "uab53", "uab54", "uab55", "uab56", "uab57", "uab58", "uab59", "uab5a",
   "uab60", "uab61", "uab62", "uab63", "uab64", "uab65", "uab66", "uab67", "uab68",
   "uab70", "uab71", "uab72", "uab73", "uab74", "uab75", "uab76", "uab77", "uab78",
   "uab79", "uab7a", "uab7b", "uab7c", "uab7d", "uab7e", "uab7f", "uab80", "uab81",
   "uab82", "uab83", "uab84", "uab85", "uab86", "uab87", "uab88", "uab89", "uab8a",
   "uab8b", "uab8c", "uab8d", "uab8e", "uab8f", "uab90", "uab91", "uab92", "uab93",
   "uab94", "uab95", "uab96", "uab97", "uab98", "uab99", "uab9a", "uab9b", "uab9c",
   "uab9d", "uab9e", "uab9f", "uaba0", "uaba1", "uaba2", "uaba3", "uaba4", "uaba5",
   "uaba6", "uaba7", "uaba8", "uaba9", "uabaa", "uabab", "uabac", "uabad", "uabae",
   "uabaf", "uabb0", "uabb1", "uabb2", "uabb3", "uabb4", "uabb5", "uabb6", "uabb7",
   "uabb8", "uabb9", "uabba", "uabbb", "uabbc", "uabbd", "uabbe", "uabbf", "ufb00",
   "ufb01", "ufb02", "ufb03", "ufb04", "ufb05", "ufb06", "ufb13", "ufb14", "ufb15",
   "ufb16", "ufb17", "uff21", "uff22", "uff23", "uff24", "uff25", "uff26", "uff27",
   "uff28", "uff29", "uff2a", "uff2b", "uff2c", "uff2d", "uff2e", "uff2f", "uff30",
   "uff31", "uff32", "uff33", "uff34", "uff35", "uff36", "uff37", "uff38", "uff39",
   "uff3a", "uff41", "uff42", "uff43", "uff44", "uff45", "uff46", "uff47", "uff48",
   "uff49", "uff4a", "uff4b", "uff4c", "uff4d", "uff4e", "uff4f", "uff50", "uff51",
   "uff52", "uff53", "uff54", "uff55", "uff56", "uff57", "uff58", "uff59", "uff5a",
   "u10400", "u10401", "u10402", "u10403", "u10404", "u10405", "u10406", "u10407",
   "u10408", "u10409", "u1040a", "u1040b", "u1040c", "u1040d", "u1040e", "u1040f",
   "u10410", "u10411", "u10412", "u10413", "u10414", "u10415", "u10416", "u10417",
   "u10418", "u10419", "u1041a", "u1041b", "u1041c", "u1041d", "u1041e", "u1041f",
   "u10420", "u10421", "u10422", "u10423", "u10424", "u10425", "u10426", "u10427",
   "u10428", "u10429", "u1042a", "u1042b", "u1042c", "u1042d", "u1042e", "u1042f",
   "u10430", "u10431", "u10432", "u10433", "u10434", "u10435", "u10436", "u10437",
   "u10438", "u10439", "u1043a", "u1043b", "u1043c", "u1043d", "u1043e", "u1043f",
   "u10440", "u10441", "u10442", "u10443", "u10444", "u10445", "u10446", "u10447",
   "u10448", "u10449", "u1044a", "u1044b", "u1044c", "u1044d", "u1044e", "u1044f",
   "u104b0", "u104b1", "u104b2", "u104b3", "u104b4", "u104b5", "u104b6", "u104b7",
   "u104b8", "u104b9", "u104ba", "u104bb", "u104bc", "u104bd", "u104be", "u104bf",
   "u104c0", "u104c1", "u104c2", "u104c3", "u104c4", "u104c5", "u104c6", "u104c7",
   "u104c8", "u104c9", "u104ca", "u104cb", "u104cc", "u104cd", "u104ce", "u104cf",
   "u104d0", "u104d1", "u104d2", "u104d3", "u104d8", "u104d9", "u104da", "u104db",
   "u104dc", "u104dd", "u104de", "u104df", "u104e0", "u104e1", "u104e2", "u104e3",
   "u104e4", "u104e5", "u104e6", "u104e7", "u104e8", "u104e9", "u104ea", "u104eb",
   "u104ec", "u104ed", "u104ee", "u104ef", "u104f0", "u104f1", "u104f2", "u104f3",
   "u104f4", "u104f5", "u104f6", "u104f7", "u104f8", "u104f9", "u104fa", "u104fb",
   "u10570", "u10571", "u10572", "u10573", "u10574", "u10575", "u10576", "u10577",
   "u10578", "u10579", "u1057a", "u1057c", "u1057d", "u1057e", "u1057f", "u10580",
   "u10581", "u10582", "u10583", "u10584", "u10585", "u10586", "u10587", "u10588",
   "u10589", "u1058a", "u1058c", "u1058d", "u1058e", "u1058f", "u10590", "u10591",
   "u10592", "u10594", "u10595", "u10597", "u10598", "u10599", "u1059a", "u1059b",
   "u1059c", "u1059d", "u1059e", "u1059f", "u105a0", "u105a1", "u105a3", "u105a4",
   "u105a5", "u105a6", "u105a7", "u105a8", "u105a9", "u105aa", "u105ab", "u105ac",
   "u105ad", "u105ae", "u105af", "u105b0", "u105b1", "u105b3", "u105b4", "u105b5",
   "u105b6", "u105b7", "u105b8", "u105b9", "u105bb", "u105bc", "u10c80", "u10c81",
   "u10c82", "u10c83", "u10c84", "u10c85", "u10c86", "u10c87", "u10c88", "u10c89",
   "u10c8a", "u10c8b", "u10c8c", "u10c8d", "u10c8e", "u10c8f", "u10c90", "u10c91",
   "u10c92", "u10c93", "u10c94", "u10c95", "u10c96", "u10c97", "u10c98", "u10c99",
   "u10c9a", "u10c9b", "u10c9c", "u10c9d", "u10c9e", "u10c9f", "u10ca0", "u10ca1",
   "u10ca2", "u10ca3", "u10ca4", "u10ca5", "u10ca6", "u10ca7", "u10ca8", "u10ca9",
   "u10caa", "u10cab", "u10cac", "u10cad", "u10cae", "u10caf", "u10cb0", "u10cb1",
   "u10cb2", "u10cc0", "u10cc1", "u10cc2", "u10cc3", "u10cc4", "u10cc5", "u10cc6",
   "u10cc7", "u10cc8", "u10cc9", "u10cca", "u10ccb", "u10ccc", "u10ccd", "u10cce",
   "u10ccf", "u10cd0", "u10cd1", "u10cd2", "u10cd3", "u10cd4", "u10cd5", "u10cd6",
   "u10cd7", "u10cd8", "u10cd9", "u10cda", "u10cdb", "u10cdc", "u10cdd", "u10cde",
   "u10cdf", "u10ce0", "u10ce1", "u10ce2", "u10ce3", "u10ce4", "u10ce5", "u10ce6",
   "u10ce7", "u10ce8", "u10ce9", "u10cea", "u10ceb", "u10cec", "u10ced", "u10cee",
   "u10cef", "u10cf0", "u10cf1", "u10cf2", "u118a0", "u118a1", "u118a2", "u118a3",
   "u118a4", "u118a5", "u118a6", "u118a7", "u118a8", "u118a9", "u118aa", "u118ab",
   "u118ac", "u118ad", "u118ae", "u118af", "u118b0", "u118b1", "u118b2", "u118b3",
   "u118b4", "u118b5", "u118b6", "u118b7", "u118b8", "u118b9", "u118ba", "u118bb",
   "u118bc", "u118bd", "u118be", "u118bf", "u118c0", "u118c1", "u118c2", "u118c3",
   "u118c4", "u118c5", "u118c6", "u118c7", "u118c8", "u118c9", "u118ca", "u118cb",
   "u118cc", "u118cd", "u118ce", "u118cf", "u118d0", "u118d1", "u118d2", "u118d3",
   "u118d4", "u118d5", "u118d6", "u118d7", "u118d8", "u118d9", "u118da", "u118db",
   "u118dc", "u118dd", "u118de", "u118df", "u16e40", "u16e41", "u16e42", "u16e43",
   "u16e44", "u16e45", "u16e46", "u16e47", "u16e48", "u16e49", "u16e4a", "u16e4b",
   "u16e4c", "u16e4d", "u16e4e", "u16e4f", "u16e50", "u16e51", "u16e52", "u16e53",
   "u16e54", "u16e55", "u16e56", "u16e57", "u16e58", "u16e59", "u16e5a", "u16e5b",
   "u16e5c", "u16e5d", "u16e5e", "u16e5f", "u16e60", "u16e61", "u16e62", "u16e63",
   "u16e64", "u16e65", "u16e66", "u16e67", "u16e68", "u16e69", "u16e6a", "u16e6b",
   "u16e6c", "u16e6d", "u16e6e", "u16e6f", "u16e70", "u16e71", "u16e72", "u16e73",
   "u16e74", "u16e75", "u16e76", "u16e77", "u16e78", "u16e79", "u16e7a", "u16e7b",
   "u16e7c", "u16e7d", "u16e7e", "u16e7f", "u1d400", "u1d401", "u1d402", "u1d403",
   "u1d404", "u1d405", "u1d406", "u1d407", "u1d408", "u1d409", "u1d40a", "u1d40b",
   "u1d40c", "u1d40d", "u1d40e", "u1d40f", "u1d410", "u1d411", "u1d412", "u1d413",
   "u1d414", "u1d415", "u1d416", "u1d417", "u1d418", "u1d419", "u1d41a", "u1d41b",
   "u1d41c", "u1d41d", "u1d41e", "u1d41f", "u1d420", "u1d421", "u1d422", "u1d423",
   "u1d424", "u1d425", "u1d426", "u1d427", "u1d428", "u1d429", "u1d42a", "u1d42b",
   "u1d42c", "u1d42d", "u1d42e", "u1d42f", "u1d430", "u1d431", "u1d432", "u1d433",
   "u1d434", "u1d435", "u1d436", "u1d437", "u1d438", "u1d439", "u1d43a", "u1d43b",
   "u1d43c", "u1d43d", "u1d43e", "u1d43f", "u1d440", "u1d441", "u1d442", "u1d443",
   "u1d444", "u1d445", "u1d446", "u1d447", "u1d448", "u1d449", "u1d44a", "u1d44b",
   "u1d44c", "u1d44d", "u1d44e", "u1d44f", "u1d450", "u1d451", "u1d452", "u1d453",
   "u1d454", "u1d456", "u1d457", "u1d458", "u1d459", "u1d45a", "u1d45b", "u1d45c",
   "u1d45d", "u1d45e", "u1d45f", "u1d460", "u1d461", "u1d462", "u1d463", "u1d464",
   "u1d465", "u1d466", "u1d467", "u1d468", "u1d469", "u1d46a", "u1d46b", "u1d46c",
   "u1d46d", "u1d46e", "u1d46f", "u1d470", "u1d471", "u1d472", "u1d473", "u1d474",
   "u1d475", "u1d476", "u1d477", "u1d478", "u1d479", "u1d47a", "u1d47b", "u1d47c",
   "u1d47d", "u1d47e", "u1d47f", "u1d480", "u1d481", "u1d482", "u1d483", "u1d484",
   "u1d485", "u1d486", "u1d487", "u1d488", "u1d489", "u1d48a", "u1d48b", "u1d48c",
   "u1d48d", "u1d48e", "u1d48f", "u1d490", "u1d491", "u1d492", "u1d493", "u1d494",
   "u1d495", "u1d496", "u1d497", "u1d498", "u1d499", "u1d49a", "u1d49b", "u1d49c",
   "u1d49e", "u1d49f", "u1d4a2", "u1d4a5", "u1d4a6", "u1d4a9", "u1d4aa", "u1d4ab",
   "u1d4ac", "u1d4ae", "u1d4af", "u1d4b0", "u1d4b1", "u1d4b2", "u1d4b3", "u1d4b4",
   "u1d4b5", "u1d4b6", "u1d4b7", "u1d4b8", "u1d4b9", "u1d4bb", "u1d4bd", "u1d4be",
   "u1d4bf", "u1d4c0", "u1d4c1", "u1d4c2", "u1d4c3", "u1d4c5", "u1d4c6", "u1d4c7",
   "u1d4c8", "u1d4c9", "u1d4ca", "u1d4cb", "u1d4cc", "u1d4cd", "u1d4ce", "u1d4cf",
   "u1d4d0", "u1d4d1", "u1d4d2", "u1d4d3", "u1d4d4", "u1d4d5", "u1d4d6", "u1d4d7",
   "u1d4d8", "u1d4d9", "u1d4da", "u1d4db", "u1d4dc", "u1d4dd", "u1d4de", "u1d4df",
   "u1d4e0", "u1d4e1", "u1d4e2", "u1d4e3", "u1d4e4", "u1d4e5", "u1d4e6", "u1d4e7",
   "u1d4e8", "u1d4e9", "u1d4ea", "u1d4eb", "u1d4ec", "u1d4ed", "u1d4ee", "u1d4ef",
   "u1d4f0", "u1d4f1", "u1d4f2", "u1d4f3", "u1d4f4", "u1d4f5", "u1d4f6", "u1d4f7",
   "u1d4f8", "u1d4f9", "u1d4fa", "u1d4fb", "u1d4fc", "u1d4fd", "u1d4fe", "u1d4ff",
   "u1d500", "u1d501", "u1d502", "u1d503", "u1d504", "u1d505", "u1d507", "u1d508",
   "u1d509", "u1d50a", "u1d50d", "u1d50e", "u1d50f", "u1d510", "u1d511", "u1d512",
   "u1d513", "u1d514", "u1d516", "u1d517", "u1d518", "u1d519", "u1d51a", "u1d51b",
   "u1d51c", "u1d51e", "u1d51f", "u1d520", "u1d521", "u1d522", "u1d523", "u1d524",
   "u1d525", "u1d526", "u1d527", "u1d528", "u1d529", "u1d52a", "u1d52b", "u1d52c",
   "u1d52d", "u1d52e", "u1d52f", "u1d530", "u1d531", "u1d532", "u1d533", "u1d534",
   "u1d535", "u1d536", "u1d537", "u1d538", "u1d539", "u1d53b", "u1d53c", "u1d53d",
   "u1d53e", "u1d540", "u1d541", "u1d542", "u1d543", "u1d544", "u1d546", "u1d54a",
   "u1d54b", "u1d54c", "u1d54d", "u1d54e", "u1d54f", "u1d550", "u1d552", "u1d553",
   "u1d554", "u1d555", "u1d556", "u1d557", "u1d558", "u1d559", "u1d55a", "u1d55b",
   "u1d55c", "u1d55d", "u1d55e", "u1d55f", "u1d560", "u1d561", "u1d562", "u1d563",
   "u1d564", "u1d565", "u1d566", "u1d567", "u1d568", "u1d569", "u1d56a", "u1d56b",
   "u1d56c", "u1d56d", "u1d56e", "u1d56f", "u1d570", "u1d571", "u1d572", "u1d573",
   "u1d574", "u1d575", "u1d576", "u1d577", "u1d578", "u1d579", "u1d57a", "u1d57b",
   "u1d57c", "u1d57d", "u1d57e", "u1d57f", "u1d580", "u1d581", "u1d582", "u1d583",
   "u1d584", "u1d585", "u1d586", "u1d587", "u1d588", "u1d589", "u1d58a", "u1d58b",
   "u1d58c", "u1d58d", "u1d58e", "u1d58f", "u1d590", "u1d591", "u1d592", "u1d593",
   "u1d594", "u1d595", "u1d596", "u1d597", "u1d598", "u1d599", "u1d59a", "u1d59b",
   "u1d59c", "u1d59d", "u1d59e", "u1d59f", "u1d5a0", "u1d5a1", "u1d5a2", "u1d5a3",
   "u1d5a4", "u1d5a5", "u1d5a6", "u1d5a7", "u1d5a8", "u1d5a9", "u1d5aa", "u1d5ab",
   "u1d5ac", "u1d5ad", "u1d5ae", "u1d5af", "u1d5b0", "u1d5b1", "u1d5b2", "u1d5b3",
   "u1d5b4", "u1d5b5", "u1d5b6", "u1d5b7", "u1d5b8", "u1d5b9", "u1d5ba", "u1d5bb",
   "u1d5bc", "u1d5bd", "u1d5be", "u1d5bf", "u1d5c0", "u1d5c1", "u1d5c2", "u1d5c3",
   "u1d5c4", "u1d5c5", "u1d5c6", "u1d5c7", "u1d5c8", "u1d5c9", "u1d5ca", "u1d5cb",
   "u1d5cc", "u1d5cd", "u1d5ce", "u1d5cf", "u1d5d0", "u1d5d1", "u1d5d2", "u1d5d3",
   "u1d5d4", "u1d5d5", "u1d5d6", "u1d5d7", "u1d5d8", "u1d5d9", "u1d5da", "u1d5db",
   "u1d5dc", "u1d5dd", "u1d5de", "u1d5df", "u1d5e0", "u1d5e1", "u1d5e2", "u1d5e3",
   "u1d5e4", "u1d5e5", "u1d5e6", "u1d5e7", "u1d5e8", "u1d5e9", "u1d5ea", "u1d5eb",
   "u1d5ec", "u1d5ed", "u1d5ee", "u1d5ef", "u1d5f0", "u1d5f1", "u1d5f2", "u1d5f3",
   "u1d5f4", "u1d5f5", "u1d5f6", "u1d5f7", "u1d5f8", "u1d5f9", "u1d5fa", "u1d5fb",
   "u1d5fc", "u1d5fd", "u1d5fe", "u1d5ff", "u1d600", "u1d601", "u1d602", "u1d603",
   "u1d604", "u1d605", "u1d606", "u1d607", "u1d608", "u1d609", "u1d60a", "u1d60b",
   "u1d60c", "u1d60d", "u1d60e", "u1d60f", "u1d610", "u1d611", "u1d612", "u1d613",
   "u1d614", "u1d615", "u1d616", "u1d617", "u1d618", "u1d619", "u1d61a", "u1d61b",
   "u1d61c", "u1d61d", "u1d61e", "u1d61f", "u1d620", "u1d621", "u1d622", "u1d623",
   "u1d624", "u1d625", "u1d626", "u1d627", "u1d628", "u1d629", "u1d62a", "u1d62b",
   "u1d62c", "u1d62d", "u1d62e", "u1d62f", "u1d630", "u1d631", "u1d632", "u1d633",
   "u1d634", "u1d635", "u1d636", "u1d637", "u1d638", "u1d639", "u1d63a", "u1d63b",
   "u1d63c", "u1d63d", "u1d63e", "u1d63f", "u1d640", "u1d641", "u1d642", "u1d643",
   "u1d644", "u1d645", "u1d646", "u1d647", "u1d648", "u1d649", "u1d64a", "u1d64b",
   "u1d64c", "u1d64d", "u1d64e", "u1d64f", "u1d650", "u1d651", "u1d652", "u1d653",
   "u1d654", "u1d655", "u1d656", "u1d657", "u1d658", "u1d659", "u1d65a", "u1d65b",
   "u1d65c", "u1d65d", "u1d65e", "u1d65f", "u1d660", "u1d661", "u1d662", "u1d663",
   "u1d664", "u1d665", "u1d666", "u1d667", "u1d668", "u1d669", "u1d66a", "u1d66b",
   "u1d66c", "u1d66d", "u1d66e", "u1d66f", "u1d670", "u1d671", "u1d672", "u1d673",
   "u1d674", "u1d675", "u1d676", "u1d677", "u1d678", "u1d679", "u1d67a", "u1d67b",
   "u1d67c", "u1d67d", "u1d67e", "u1d67f", "u1d680", "u1d681", "u1d682", "u1d683",
   "u1d684", "u1d685", "u1d686", "u1d687", "u1d688", "u1d689", "u1d68a", "u1d68b",
   "u1d68c", "u1d68d", "u1d68e", "u1d68f", "u1d690", "u1d691", "u1d692", "u1d693",
   "u1d694", "u1d695", "u1d696", "u1d697", "u1d698", "u1d699", "u1d69a", "u1d69b",
   "u1d69c", "u1d69d", "u1d69e", "u1d69f", "u1d6a0", "u1d6a1", "u1d6a2", "u1d6a3",
   "u1d6a4", "u1d6a5", "u1d6a8", "u1d6a9", "u1d6aa", "u1d6ab", "u1d6ac", "u1d6ad",
   "u1d6ae", "u1d6af", "u1d6b0", "u1d6b1", "u1d6b2", "u1d6b3", "u1d6b4", "u1d6b5",
   "u1d6b6", "u1d6b7", "u1d6b8", "u1d6b9", "u1d6ba", "u1d6bb", "u1d6bc", "u1d6bd",
   "u1d6be", "u1d6bf", "u1d6c0", "u1d6c2", "u1d6c3", "u1d6c4", "u1d6c5", "u1d6c6",
   "u1d6c7", "u1d6c8", "u1d6c9", "u1d6ca", "u1d6cb", "u1d6cc", "u1d6cd", "u1d6ce",
   "u1d6cf", "u1d6d0", "u1d6d1", "u1d6d2", "u1d6d3", "u1d6d4", "u1d6d5", "u1d6d6",
   "u1d6d7", "u1d6d8", "u1d6d9", "u1d6da", "u1d6dc", "u1d6dd", "u1d6de", "u1d6df",
   "u1d6e0", "u1d6e1", "u1d6e2", "u1d6e3", "u1d6e4", "u1d6e5", "u1d6e6", "u1d6e7",
   "u1d6e8", "u1d6e9", "u1d6ea", "u1d6eb", "u1d6ec", "u1d6ed", "u1d6ee", "u1d6ef",
   "u1d6f0", "u1d6f1", "u1d6f2", "u1d6f3", "u1d6f4", "u1d6f5", "u1d6f6", "u1d6f7",
   "u1d6f8", "u1d6f9", "u1d6fa", "u1d6fc", "u1d6fd", "u1d6fe", "u1d6ff", "u1d700",
   "u1d701", "u1d702", "u1d703", "u1d704", "u1d705", "u1d706", "u1d707", "u1d708",
   "u1d709", "u1d70a", "u1d70b", "u1d70c", "u1d70d", "u1d70e", "u1d70f", "u1d710",
   "u1d711", "u1d712", "u1d713", "u1d714", "u1d716", "u1d717", "u1d718", "u1d719",
   "u1d71a", "u1d71b", "u1d71c", "u1d71d", "u1d71e", "u1d71f", "u1d720", "u1d721",
   "u1d722", "u1d723", "u1d724", "u1d725", "u1d726", "u1d727", "u1d728", "u1d729",
   "u1d72a", "u1d72b", "u1d72c", "u1d72d", "u1d72e", "u1d72f", "u1d730", "u1d731",
   "u1d732", "u1d733", "u1d734", "u1d736", "u1d737", "u1d738", "u1d739", "u1d73a",
   "u1d73b", "u1d73c", "u1d73d", "u1d73e", "u1d73f", "u1d740", "u1d741", "u1d742",
   "u1d743", "u1d744", "u1d745", "u1d746", "u1d747", "u1d748", "u1d749", "u1d74a",
   "u1d74b", "u1d74c", "u1d74d", "u1d74e", "u1d750", "u1d751", "u1d752", "u1d753",
   "u1d754", "u1d755", "u1d756", "u1d757", "u1d758", "u1d759", "u1d75a", "u1d75b",
   "u1d75c", "u1d75d", "u1d75e", "u1d75f", "u1d760", "u1d761", "u1d762", "u1d763",
   "u1d764", "u1d765", "u1d766", "u1d767", "u1d768", "u1d769", "u1d76a", "u1d76b",
   "u1d76c", "u1d76d", "u1d76e", "u1d770", "u1d771", "u1d772", "u1d773", "u1d774",
   "u1d775", "u1d776", "u1d777", "u1d778", "u1d779", "u1d77a", "u1d77b", "u1d77c",
   "u1d77d", "u1d77e", "u1d77f", "u1d780", "u1d781", "u1d782", "u1d783", "u1d784",
   "u1d785", "u1d786", "u1d787", "u1d788", "u1d78a", "u1d78b", "u1d78c", "u1d78d",
   "u1d78e", "u1d78f", "u1d790", "u1d791", "u1d792", "u1d793", "u1d794", "u1d795",
   "u1d796", "u1d797", "u1d798", "u1d799", "u1d79a", "u1d79b", "u1d79c", "u1d79d",
   "u1d79e", "u1d79f", "u1d7a0", "u1d7a1", "u1d7a2", "u1d7a3", "u1d7a4", "u1d7a5",
   "u1d7a6", "u1d7a7", "u1d7a8", "u1d7aa", "u1d7ab", "u1d7ac", "u1d7ad", "u1d7ae",
   "u1d7af", "u1d7b0", "u1d7b1", "u1d7b2", "u1d7b3", "u1d7b4", "u1d7b5", "u1d7b6",
   "u1d7b7", "u1d7b8", "u1d7b9", "u1d7ba", "u1d7bb", "u1d7bc", "u1d7bd", "u1d7be",
   "u1d7bf", "u1d7c0", "u1d7c1", "u1d7c2", "u1d7c4", "u1d7c5", "u1d7c6", "u1d7c7",
   "u1d7c8", "u1d7c9", "u1d7ca", "u1d7cb", "u1df00", "u1df01", "u1df02", "u1df03",
   "u1df04", "u1df05", "u1df06", "u1df07", "u1df08", "u1df09", "u1df0b", "u1df0c",
   "u1df0d", "u1df0e", "u1df0f", "u1df10", "u1df11", "u1df12", "u1df13", "u1df14",
   "u1df15", "u1df16", "u1df17", "u1df18", "u1df19", "u1df1a", "u1df1b", "u1df1c",
   "u1df1d", "u1df1e", "u1e900", "u1e901", "u1e902", "u1e903", "u1e904", "u1e905",
   "u1e906", "u1e907", "u1e908", "u1e909", "u1e90a", "u1e90b", "u1e90c", "u1e90d",
   "u1e90e", "u1e90f", "u1e910", "u1e911", "u1e912", "u1e913", "u1e914", "u1e915",
   "u1e916", "u1e917", "u1e918", "u1e919", "u1e91a", "u1e91b", "u1e91c", "u1e91d",
   "u1e91e", "u1e91f", "u1e920", "u1e921", "u1e922", "u1e923", "u1e924", "u1e925",
   "u1e926", "u1e927", "u1e928", "u1e929", "u1e92a", "u1e92b", "u1e92c", "u1e92d",
   "u1e92e", "u1e92f", "u1e930", "u1e931", "u1e932", "u1e933", "u1e934", "u1e935",
   "u1e936", "u1e937", "u1e938", "u1e939", "u1e93a", "u1e93b", "u1e93c", "u1e93d",
   "u1e93e", "u1e93f", "u1e940", "u1e941", "u1e942", "u1e943", "u1f130", "u1f131",
   "u1f132", "u1f133", "u1f134", "u1f135", "u1f136", "u1f137", "u1f138", "u1f139",
   "u1f13a", "u1f13b", "u1f13c", "u1f13d", "u1f13e", "u1f13f", "u1f140", "u1f141",
   "u1f142", "u1f143", "u1f144", "u1f145", "u1f146", "u1f147", "u1f148", "u1f149",
   "u1f150", "u1f151", "u1f152", "u1f153", "u1f154", "u1f155", "u1f156", "u1f157",
   "u1f158", "u1f159", "u1f15a", "u1f15b", "u1f15c", "u1f15d", "u1f15e", "u1f15f",
   "u1f160", "u1f161", "u1f162", "u1f163", "u1f164", "u1f165", "u1f166", "u1f167",
   "u1f168", "u1f169", "u1f170", "u1f171", "u1f172", "u1f173", "u1f174", "u1f175",
   "u1f176", "u1f177", "u1f178", "u1f179", "u1f17a", "u1f17b", "u1f17c", "u1f17d",
   "u1f17e", "u1f17f", "u1f180", "u1f181", "u1f182", "u1f183", "u1f184", "u1f185",
   "u1f186", "u1f187", "u1f188", "u1f189"}

Cased == AsciiUpper \cup {LowerAlpha[i] : i \in 1..Len(LowerAlpha)} \cup CasedOutsideAscii

CapitalSigma == "u03a3"

DottedCapitalI == "u0130"

\* str.lower() on one character: the text that stands for it, of two
\* characters for the dotted capital I
LowerChar(c) ==
  IF c \in AsciiUpper THEN <<LowerAlpha[IndexIn(UpperAlpha, c)]>>
  ELSE IF c \in UnicodeUpper THEN <<UnicodeLowerSeq[IndexIn(UnicodeUpperSeq, c)]>>
  ELSE IF c = DottedCapitalI THEN <<"i", "u0307">>
  ELSE IF c = CapitalSigma THEN <<"u03c3">>
  ELSE <<c>>

\* the nearest place before i (dir = -1) or after it (dir = 1) whose
\* character is not in `skipped`, 0 when there is none
RECURSIVE Nearest(_, _, _, _)
Nearest(s, i, dir, skipped) ==
  IF i + dir < 1 \/ i + dir > Len(s) THEN 0
  ELSE IF s[i + dir] \in skipped THEN Nearest(s, i + dir, dir, skipped)
  ELSE i + dir

WordEnd(s, before, after, cased) ==
  /\ before # 0
  /\ s[before] \in cased
  /\ after = 0 \/ s[after] \notin cased

EndsWord(s, i, skipped, cased) ==
  WordEnd(s, Nearest(s, i, -1, skipped), Nearest(s, i, 1, skipped), cased)

\* the capital sigma at s[i] ends a word: a cased character stands before it,
\* none after it, the characters of CaseIgnorable skipped on both sides
FinalSigma(s, i) == EndsWord(s, i, CaseIgnorable, Cased)

\* the lower-case text of s[i] within s
LowerAt(s, i) ==
  IF s[i] = CapitalSigma /\ FinalSigma(s, i) THEN <<"u03c2">> ELSE LowerChar(s[i])

RECURSIVE LowerFrom(_, _)
LowerFrom(s, i) == IF i > Len(s) THEN <<>> ELSE LowerAt(s, i) \o LowerFrom(s, i + 1)

\* str.lower()
Lower(s) ==
  IF \A i \in 1..Len(s) : s[i] # DottedCapitalI
    THEN [i \in 1..Len(s) |-> LowerAt(s, i)[1]]
    ELSE LowerFrom(s, 1)

\* s[from:] for a 1-based index
DropTo(s, from) == SubSeq(s, from, Len(s))

RECURSIVE LStripSet(_, _)
LStripSet(s, chars) ==
  IF s # <<>> /\ Head(s) \in chars THEN LStripSet(Tail(s), chars) ELSE s

RECURSIVE RStripSet(_, _)
RStripSet(s, chars) ==
  IF s # <<>> /\ s[Len(s)] \in chars
    THEN RStripSet(SubSeq(s, 1, Len(s) - 1), chars)
    ELSE s

\* str.strip(chars)
StripSet(s, chars) == RStripSet(LStripSet(s, chars), chars)

\* str.strip()
Strip(s) == StripSet(s, Whitespace)

\* str.startswith(p)
StartsWith(s, p) == Len(s) >= Len(p) /\ SubSeq(s, 1, Len(p)) = p

\* the least index at which p occurs in s, 0 when it does not (str.find + 1)
Find(s, p) ==
  LET hits == {i \in 1..(Len(s) - Len(p) + 1) : SubSeq(s, i, i + Len(p) - 1) = p}
  IN IF hits = {} THEN 0 ELSE CHOOSE i \in hits : \A j \in hits : i <= j

\* p in s
Contains(s, p) == Find(s, p) # 0

\* str.split(sep, 1) for a one-character separator: one or two parts
SplitOnce(s, sep) ==
  LET i == Find(s, <<sep>>)
  IN IF i = 0 THEN <<s>> ELSE <<SubSeq(s, 1, i - 1), DropTo(s, i + 1)>>

\* str.split(sep) for a one-character separator
RECURSIVE Split(_, _)
Split(s, sep) ==
  LET i == Find(s, <<sep>>)
  IN IF i = 0 THEN <<s>>
     ELSE <<SubSeq(s, 1, i - 1)>> \o Split(DropTo(s, i + 1), sep)

\* sep.join(parts)
RECURSIVE Join(_, _)
Join(parts, sep) ==
  IF parts = <<>> THEN <<>>
  ELSE IF Len(parts) = 1 THEN parts[1]
  ELSE parts[1] \o <<sep>> \o Join(Tail(parts), sep)

\* str.replace(old, new): every non-overlapping occurrence, left to right
RECURSIVE Replace(_, _, _)
Replace(s, old, new) ==
  LET i == Find(s, old)
  IN IF i = 0 THEN s
     ELSE SubSeq(s, 1, i - 1) \o new \o Replace(DropTo(s, i + Len(old)), old, new)

\* Path.read_text() of a file that holds `text`: the newline translation of
\* text mode turns CR LF and a lone CR into LF (write_text leaves LF as it is)
ReadText(text) == Replace(Replace(text, <<"\r", "\n">>, <<"\n">>), <<"\r">>, <<"\n">>)

\* the value of a text of decimal digits
RECURSIVE DigitsValue(_, _)
DigitsValue(s, acc) ==
  IF s = <<>> THEN acc ELSE DigitsValue(Tail(s), 10 * acc + DigitVal(Head(s)))

\* the index of a line that has none (used where no index is negative)
ValueError == -1

\* the whitespace int() accepts around the number: that of str.strip()
\* without the four separators x1c..x1f
IntWhitespace == Whitespace \ {"x1c", "x1d", "x1e", "x1f"}

Signs == {"+", "-"}

\* the digits of t, for a text of decimal digits with single underscores
\* between them and nothing else; <<>> for any other text.  digs holds the
\* decimal digits of t
DigitsOf(t, digs) ==
  IF /\ digs # <<>>
     /\ t[1] # "_"
     /\ t[Len(t)] # "_"
     /\ \A i \in 1..(Len(t) - 1) : ~(t[i] = "_" /\ t[i + 1] = "_")
     /\ Len(digs) + Cardinality({j \in 1..Len(t) : t[j] = "_"}) = Len(t)
    THEN digs ELSE <<>>

SignedInt(negative, digs) ==
  IF digs = <<>> THEN [ok |-> FALSE, n |-> 0]
  ELSE [ok |-> TRUE, n |-> IF negative THEN 0 - DigitsValue(digs, 0) ELSE DigitsValue(digs, 0)]

Unsigned(u) == IF u # <<>> /\ u[1] \in Signs THEN Tail(u) ELSE u

\* int() of a text without surrounding whitespace
IntOf(u) ==
  SignedInt(u # <<>> /\ u[1] = "-",
            DigitsOf(Unsigned(u), SelectSeq(Unsigned(u), LAMBDA c : c \in DecimalDigits)))

\* int(s): ok = FALSE stands for ValueError. Surrounding whitespace is
\* dropped, one sign may lead, single underscores may stand between digits
ToInt(s) == IntOf(StripSet(s, IntWhitespace))

(***************************************************************************)
(* State.                                                                  *)
(***************************************************************************)
VARIABLES
  \* select_stories: the argument list, the limit, the returned list
  selStories, selLimit, selResult, selPc,
  \* post_thread: which package's version runs, its arguments (the number of
  \* messages, reply_categories, whether edit_main_callback is given), its
  \* position, the index of the next message, main_id, reply_ids, the posts
  \* and edits issued so far, the returned value, the id the API assigns next
  \* (thCalls: the calls of edit_main_callback)
  thVersion, thMsgs, thCats, thCallback, thPc, thIdx, thMainId, thReplyIds,
  thPosts, thCalls, thEdits, thRet, thNextId,
  \* process_stories: the arguments (stories, contents, api_key, channel), the
  \* number of the call, its position, the attempt of the retry loop, the
  \* cache directory at the start of the call, the `cached` map, the requests
  \* sent and the seconds slept by this call, the lines of the response it
  \* parsed with what each line did, how the call ended and what it returned
  prStories, prContents, prKey, prChannel, prCall, prPc, prAttempt, prSnapshot,
  prCached, prReqs, prSleeps, prLines, prLineLog, prEnd, prRet,
  \* the previous call when the API answered it: its channel and its result
  prPrev,
  \* the enrichment cache directory (file name -> text) and, per file, the
  \* number of write_text calls so far
  cache, cacheWrites,
  \* categorize_and_rank_batch: the stories, the number of the call, its
  \* position, the attempt, the cache directory at the start of the call, the
  \* `cached` map and the `uncached` list, the requests sent and the seconds
  \* slept, the lines processed with what each did, how the call ended, what
  \* it returned, the cache directory
  cgStories, cgCall, cgPc, cgAttempt, cgSnapshot, cgCached, cgUncached, cgReqs,
  cgSleeps, cgLines, cgLog, cgEnd, cgRet, cgFiles,
  \* translate_batch: prompt_base and the titles, the number of the call, its
  \* position, the attempt, the `cached` map and `uncached_idx`, the requests
  \* sent and the seconds slept, the lines of the response, the
  \* `translations` map, how the call ended, what it returned, the cache
  \* directory
  trPrompt, trTitles, trCall, trPc, trAttempt, trCached, trUncached, trReqs,
  trSleeps, trLines, trTranslations, trEnd, trRet, trFiles,
  \* fetch_stories: its position, the page of the loop, the `stories` list,
  \* the requests sent with what each was answered, the returned list
  fsPc, fsPage, fsStories, fsLog, fsRet,
  \* fetch_articles: the stories, its position, the `results` map, the state
  \* of the task of every story with a URL, the content cache directory now
  \* and at the start of the call, the write_text calls (file, task) in the
  \* order they began, the tasks in the order as_completed yielded them, the
  \* returned map
  faStories, faPc, faResults, faTasks, faFiles, faAtStart, faWrites, faOrder,
  faRet,
  \* format_digest: the stories, its position, the returned messages (the
  \* section of each message: its category and its stories)
  fmStories, fmPc, fmRet,
  \* generate_digest: the generation-API credential of the environment, its
  \* position, the `top` list, the article contents, the number of
  \* generation-API requests issued, the `titles` and `summaries` maps, the
  \* returned messages
  gdKey, gdPc, gdTop, gdContents, gdRequests, gdTitles, gdSummaries, gdRet,
  \* generate_digest: the main selection (`top` of line 32) and the
  \* selections `show_selected` and `ask_selected`
  gdSelected, gdShowSelected, gdAskSelected,
  \* _parse_result_line on one line: the title and the summary the line
  \* carries and the quote character around them, the position, the result
  plTitle, plSummary, plQuote, plPc, plRet,
  \* categorize_story on one story: its title and its domain, the position,
  \* the result
  csTitle, csDomain, csPc, csRet,
  \* _fetch_one called again and again, one call at a time: the content
  \* cache directory, the URL of the call, its position, its `text`, whether
  \* it found the cache file, the URLs requested so far, the calls that
  \* ended (URL, file found or not, request issued or not, text returned)
  frFiles, frUrl, frPc, frText, frHad, frRequests, frLog,
  \* format_story_lines on one story: the story, the `titles` and the
  \* `summaries` maps, the position, the lines returned
  rnStory, rnTitles, rnSummaries, rnPc, rnRet

selVars == <<selStories, selLimit, selResult, selPc>>

prArgs == <<prStories, prContents>>

prVars ==
  <<prStories, prContents, prKey, prChannel, prCall, prPc, prAttempt, prSnapshot,
    prCached, prReqs, prSleeps, prLines, prLineLog, prEnd, prRet, prPrev,
    cache, cacheWrites>>

thArgs == <<thVersion, thMsgs, thCats, thCallback>>

thVars ==
  <<thVersion, thMsgs, thCats, thCallback, thPc, thIdx, thMainId, thReplyIds,
    thPosts, thCalls, thEdits, thRet, thNextId>>

cgVars ==
  <<cgStories, cgCall, cgPc, cgAttempt, cgSnapshot, cgCached, cgUncached, cgReqs,
    cgSleeps, cgLines, cgLog, cgEnd, cgRet, cgFiles>>

trVars ==
  <<trPrompt, trTitles, trCall, trPc, trAttempt, trCached, trUncached, trReqs,
    trSleeps, trLines, trTranslations, trEnd, trRet, trFiles>>

fsVars == <<fsPc, fsPage, fsStories, fsLog, fsRet>>

faVars ==
  <<faStories, faPc, faResults, faTasks, faFiles, faAtStart, faWrites, faOrder,
    faRet>>

fmVars == <<fmStories, fmPc, fmRet>>

gdVars ==
  <<gdKey, gdPc, gdTop, gdContents, gdRequests, gdTitles, gdSummaries, gdRet,
    gdSelected, gdShowSelected, gdAskSelected>>

plVars == <<plTitle, plSummary, plQuote, plPc, plRet>>

csVars == <<csTitle, csDomain, csPc, csRet>>

frVars == <<frFiles, frUrl, frPc, frText, frHad, frRequests, frLog>>

rnVars == <<rnStory, rnTitles, rnSummaries, rnPc, rnRet>>

\* the state of the stages that are not selection, posting or enrichment
stageVars ==
  <<cgVars, trVars, fsVars, faVars, fmVars, gdVars, plVars, csVars,
    frVars, rnVars>>

\* what a step of one of these stages leaves alone
cgOthers ==
  <<selVars, thVars, prVars, trVars, fsVars, faVars, fmVars, gdVars, plVars,
    csVars, frVars, rnVars>>

trOthers ==
  <<selVars, thVars, prVars, cgVars, fsVars, faVars, fmVars, gdVars, plVars,
    csVars, frVars, rnVars>>

fsOthers ==
  <<selVars, thVars, prVars, cgVars, trVars, faVars, fmVars, gdVars, plVars,
    csVars, frVars, rnVars>>

faOthers ==
  <<selVars, thVars, prVars, cgVars, trVars, fsVars, fmVars, gdVars, plVars,
    csVars, frVars, rnVars>>

fmOthers ==
  <<selVars, thVars, prVars, cgVars, trVars, fsVars, faVars, gdVars, plVars,
    csVars, frVars, rnVars>>

gdOthers ==
  <<selVars, thVars, prVars, cgVars, trVars, fsVars, faVars, fmVars, plVars,
    csVars, frVars, rnVars>>

plOthers ==
  <<selVars, thVars, prVars, cgVars, trVars, fsVars, faVars, fmVars, gdVars,
    csVars, frVars, rnVars>>

csOthers ==
  <<selVars, thVars, prVars, cgVars, trVars, fsVars, faVars,
    fmVars, gdVars, plVars, frVars, rnVars>>

frOthers ==
  <<selVars, thVars, prVars, cgVars, trVars, fsVars, faVars,
    fmVars, gdVars, plVars, csVars, rnVars>>

rnOthers ==
  <<selVars, thVars, prVars, cgVars, trVars, fsVars, faVars,
    fmVars, gdVars, plVars, csVars, frVars>>

vars == <<selVars, thVars, prVars, stageVars>>

(***************************************************************************)
(* select_stories (src/hndigest/hn.py).                                    *)
(***************************************************************************)
JOB_WORDS ==
  << <<"h", "i", "r", "i", "n", "g">>,
     <<"w", "h", "o", " ", "i", "s", " ", "h", "i", "r", "i", "n", "g">>,
     <<"w", "h", "o", " ", "w", "a", "n", "t", "s", " ", "t", "o", " ", "b", "e",
       " ", "h", "i", "r", "e", "d">>,
     <<"f", "r", "e", "e", "l", "a", "n", "c", "e", "r">>,
     <<"j", "o", "b">>,
     <<"c", "a", "r", "e", "e", "r">> >>

\* a story with no URL and a title shorter than this is dropped
MinTitleLen == 20

\* at most this many admitted stories per domain
DomainCap == 3

\* urllib.parse.urlsplit, as urlparse(url).netloc runs it.
\* _WHATWG_C0_CONTROL_OR_SPACE: the characters 00-1F and the space
C0ControlOrSpace ==
  {" ", "\t", "\n", "\r", "\f",
   "x00", "x01", "x02", "x03", "x04", "x05", "x06", "x07", "x08", "x0b",
   "x0e", "x0f", "x10", "x11", "x12", "x13", "x14", "x15", "x16", "x17",
   "x18", "x19", "x1a", "x1b", "x1c", "x1d", "x1e", "x1f"}

\* _UNSAFE_URL_BYTES_TO_REMOVE
UnsafeUrlChars == {"\t", "\r", "\n"}

AsciiLetters ==
  {UpperAlpha[i] : i \in 1..Len(UpperAlpha)} \cup {LowerAlpha[i] : i \in 1..Len(LowerAlpha)}

\* scheme_chars
SchemeChars == AsciiLetters \cup Digits \cup {"+", "-", "."}

HexDigits ==
  Digits \cup {"a", "b", "c", "d", "e", "f", "A", "B", "C", "D", "E", "F"}

\* the delimiters _splitnetloc looks for
NetlocEnd == {"/", "?", "#"}

\* url.lstrip(_WHATWG_C0_CONTROL_OR_SPACE) without tab, CR and LF
UrlCleaned(url) ==
  SelectSeq(LStripSet(url, C0ControlOrSpace), LAMBDA c : c \notin UnsafeUrlChars)

\* the url once a valid scheme and its colon are taken off
AfterScheme(url) ==
  LET i == Find(url, <<":">>)
  IN IF i > 1 /\ url[1] \in AsciiLetters /\ \A j \in 1..(i - 1) : url[j] \in SchemeChars
       THEN DropTo(url, i + 1)
       ELSE url

\* _splitnetloc(url, 2)[0]
SplitNetloc(url) ==
  LET ends == {j \in 3..Len(url) : url[j] \in NetlocEnd}
      stop == IF ends = {} THEN Len(url) + 1
              ELSE CHOOSE j \in ends : \A k \in ends : j <= k
  IN SubSeq(url, 3, stop - 1)

\* the netloc urlsplit finds: what follows a leading // of the rest
Netloc(url) ==
  IF StartsWith(AfterScheme(UrlCleaned(url)), <<"/", "/">>)
    THEN SplitNetloc(AfterScheme(UrlCleaned(url)))
    ELSE <<>>

\* ipaddress.IPv4Address: four decimal octets without leading zeros
IsOctet(o) ==
  /\ o # <<>>
  /\ Len(o) <= 3
  /\ \A i \in 1..Len(o) : o[i] \in Digits
  /\ (o = <<"0">> \/ o[1] # "0")
  /\ DigitsValue(o, 0) <= 255

IsIPv4(h) ==
  LET parts == Split(h, ".")
  IN Len(parts) = 4 /\ \A i \in 1..4 : IsOctet(parts[i])

IsHextet(p) == p # <<>> /\ Len(p) <= 4 /\ \A i \in 1..Len(p) : p[i] \in HexDigits

\* ipaddress.IPv6Address(h) does not raise: an optional %scope, at least
\* three parts between colons, an IPv4 tail counted as two groups, at most
\* one "::", eight groups in all
IsIPv6(h) ==
  LET scoped == SplitOnce(h, "%")
      raw == Split(scoped[1], ":")
      hasV4 == Contains(raw[Len(raw)], <<".">>)
      parts == IF hasV4 THEN SubSeq(raw, 1, Len(raw) - 1) \o << <<"0">>, <<"0">> >>
               ELSE raw
      n == Len(parts)
      skips == {i \in 2..(n - 1) : parts[i] = <<>>}
      k == CHOOSE i \in skips : TRUE
      hi == IF parts[1] = <<>> THEN k - 2 ELSE k - 1
      lo == IF parts[n] = <<>> THEN n - k - 1 ELSE n - k
  IN /\ Len(scoped) = 2 => (scoped[2] # <<>> /\ ~Contains(scoped[2], <<"%">>))
     /\ Len(raw) >= 3
     /\ hasV4 => IsIPv4(raw[Len(raw)])
     /\ n <= 9
     /\ Cardinality(skips) <= 1
     /\ IF skips # {}
          THEN /\ parts[1] = <<>> => hi = 0
               /\ parts[n] = <<>> => lo = 0
               /\ hi + lo <= 7
               /\ \A i \in 1..hi : IsHextet(parts[i])
               /\ \A i \in (n - lo + 1)..n : IsHextet(parts[i])
          ELSE /\ n = 8
               /\ \A i \in 1..n : IsHextet(parts[i])

\* the IPvFuture form v<hex>.<text>
IsIPvFuture(h) ==
  LET dot == Find(h, <<".">>)
  IN /\ dot >= 3
     /\ Len(h) > dot
     /\ \A i \in 2..(dot - 1) : h[i] \in HexDigits

\* netloc.partition('[')[2].partition(']')[0]
BracketedHost(netloc) ==
  LET after == DropTo(netloc, Find(netloc, <<"[">>) + 1)
      close == Find(after, <<"]">>)
  IN IF close = 0 THEN after ELSE SubSeq(after, 1, close - 1)

\* _check_bracketed_host(hostname) does not raise
BracketedHostValid(h) ==
  IF StartsWith(h, <<"v">>) THEN IsIPvFuture(h) ELSE IsIPv6(h)

\* the characters whose NFKC form holds one of "/", "?", "#", "@", ":"
NfkcUnsafe ==
  {"u2047", "u2048", "u2049", "u2100", "u2101", "u2105", "u2106", "u2a74", "ufe13",
   "ufe16", "ufe55", "ufe56", "ufe5f", "ufe6b", "uff03", "uff0f", "uff1a", "uff1f",
   "uff20"}

\* _checknetloc: the netloc holds a character that NFKC turns into a
\* delimiter of the URL
NetlocUnsafe(netloc) == \E i \in 1..Len(netloc) : netloc[i] \in NfkcUnsafe

\* urlsplit raises ValueError: one bracket without the other, brackets
\* around what is no IPv6 or IPvFuture address, or a netloc that
\* _checknetloc rejects
UrlRaises(url) ==
  LET hasOpen == Contains(Netloc(url), <<"[">>)
      hasClose == Contains(Netloc(url), <<"]">>)
  IN \/ hasOpen # hasClose
     \/ hasOpen /\ hasClose /\ ~BracketedHostValid(BracketedHost(Netloc(url)))
     \/ NetlocUnsafe(Netloc(url))

Www == <<"w", "w", "w", ".">>

\* s["domain"] of line 64 (where urlparse does not raise)
Domain(url) == IF url # <<>> THEN Replace(Netloc(url), Www, <<>>) ELSE <<>>

\* a score that counts a comment like a point
Score_Unweighted(s) == s.points + s.comments

\* s["score"] of line 63
Score(s) == s.points + s.comments * 2

\* a test that compares the title as it is written
IsJobTitle_CaseSensitive(title) ==
  \E i \in 1..Len(JOB_WORDS) : Contains(title, JOB_WORDS[i])

\* any(w in title_lower for w in JOB_WORDS)
AnyJobWord(title_lower) ==
  \E i \in 1..Len(JOB_WORDS) : Contains(title_lower, JOB_WORDS[i])

\* title_lower = s["title"].lower() and the test of line 59
IsJobTitle(title) == AnyJobWord(Lower(title))

\* the story is skipped by the filter loop (lines 59-62)
Dropped(s) ==
  \/ IsJobTitle(s.title)
  \/ s.url = <<>> /\ Len(s.title) < MinTitleLen

\* the story as the filter loop leaves it (lines 63-64)
Scored(s) ==
  [id |-> s.id, title |-> s.title, url |-> s.url, points |-> s.points,
   comments |-> s.comments, score |-> Score(s), domain |-> Domain(s.url)]

\* lines 56-65
RECURSIVE Filtered(_)
Filtered(stories) ==
  IF stories = <<>> THEN <<>>
  ELSE IF Dropped(Head(stories)) THEN Filtered(Tail(stories))
  ELSE <<Scored(Head(stories))>> \o Filtered(Tail(stories))

\* insert s after every element whose score is >= its own (stable, descending)
RECURSIVE InsertByScore(_, _)
InsertByScore(sorted, s) ==
  IF sorted = <<>> THEN <<s>>
  ELSE IF Head(sorted).score >= s.score
    THEN <<Head(sorted)>> \o InsertByScore(Tail(sorted), s)
    ELSE <<s>> \o sorted

\* filtered.sort(key=score, reverse=True), line 67
RECURSIVE SortByScore(_)
SortByScore(list) ==
  IF list = <<>> THEN <<>>
  ELSE InsertByScore(SortByScore(SubSeq(list, 1, Len(list) - 1)), list[Len(list)])

\* domain_count.get(d, 0) for the stories admitted so far
DomainCount(result, d) == Cardinality({i \in 1..Len(result) : result[i].domain = d})

\* the walk of lines 72-78: the break is tested after every story
RECURSIVE Walk(_, _, _)
Walk(rest, result, limit) ==
  IF rest = <<>> THEN result
  ELSE LET s == Head(rest)
           r == IF DomainCount(result, s.domain) < DomainCap
                  THEN Append(result, s) ELSE result
       IN IF Len(r) >= limit THEN r ELSE Walk(Tail(rest), r, limit)

select_stories(stories, limit) == Walk(SortByScore(Filtered(stories)), <<>>, limit)

\* urlparse of line 64 raises ValueError for a story the filter loop keeps:
\* select_stories does not catch it
SelectRaises(stories) ==
  \E i \in 1..Len(stories) :
    /\ ~Dropped(stories[i])
    /\ stories[i].url # <<>>
    /\ UrlRaises(stories[i].url)

(***************************************************************************)
(* Inputs of select_stories.                                               *)
(***************************************************************************)
TitleLong ==
  <<"R", "u", "s", "t", " ", "i", "n", " ", "t", "h", "e", " ", "k", "e", "r",
    "n", "e", "l", " ", "6">>

TitleShort == <<"A", "s", "k", " ", "H", "N", ":", " ", "W", "h", "y", "?">>

TitleJob ==
  <<"W", "h", "o", " ", "i", "s", " ", "H", "I", "R", "I", "N", "G", " ", "n",
    "o", "w", " ", "a", "t", " ", "X", "?">>

UrlA1 == <<"h", "t", "t", "p", "s", ":", "/", "/", "a", ".", "c", "o", "m", "/", "x">>

UrlA2 == <<"h", "t", "t", "p", ":", "/", "/", "w", "w", "w", ".", "a", ".", "c", "o", "m", "/">>

UrlA3 == <<"h", "t", "t", "p", "s", ":", "/", "/", "a", ".", "c", "o", "m", "/", "y">>

UrlA4 ==
  <<"h", "t", "t", "p", "s", ":", "/", "/", "w", "w", "w", ".", "a", ".", "c",
    "o", "m", "/", "z">>

UrlC ==
  <<"h", "t", "t", "p", "s", ":", "/", "/", "b", ".", "w", "w", "w", ".", "c",
    ".", "i", "o", "/", "p">>

RawStory(id, title, url, points, comments) ==
  [id |-> id, title |-> title, url |-> url, points |-> points, comments |-> comments]

SelPool ==
  { RawStory(1, TitleLong, UrlA1, 10, 0),
    RawStory(2, TitleLong, UrlA2, 4, 3),
    RawStory(3, TitleShort, UrlA3, 7, 0),
    RawStory(4, TitleLong, UrlA4, 1, 1),
    RawStory(5, TitleLong, <<>>, 2, 2),
    RawStory(6, TitleShort, <<>>, 50, 0),
    RawStory(7, TitleLong, UrlC, 3, 0),
    RawStory(8, TitleJob, UrlA1, 9, 9) }

\* a URL urlparse rejects: http://[bad/x
UrlBad == <<"h", "t", "t", "p", ":", "/", "/", "[", "b", "a", "d", "/", "x">>

\* lists with a story whose URL urlparse rejects: kept by the filter loop, or
\* dropped by it as a job posting before its URL is read
\* http://a, the sign "account of" (U+2100), b/x: NFKC turns the sign into "a/c"
UrlNfkc == <<"h", "t", "t", "p", ":", "/", "/", "a", "u2100", "b", "/", "x">>

BadUrlLists ==
  { << RawStory(1, TitleLong, UrlA1, 10, 0), RawStory(9, TitleLong, UrlBad, 5, 0) >>,
    << RawStory(9, TitleJob, UrlBad, 5, 0), RawStory(1, TitleLong, UrlA1, 10, 0) >>,
    << RawStory(1, TitleLong, UrlA1, 10, 0), RawStory(9, TitleLong, UrlNfkc, 5, 0) >> }

\* the lists of distinct stories of the pool, up to MaxList long
SelLists ==
  UNION {{q \in [1..n -> SelPool] : \A i, j \in 1..n : i # j => q[i] # q[j]}
         : n \in 0..MaxList}

SelIdle ==
  /\ selStories = <<>>
  /\ selLimit = 0
  /\ selResult = <<>>
  /\ selPc = "idle"

ThIdle ==
  /\ thVersion = "hndigest"
  /\ thMsgs = 0
  /\ thCats = <<>>
  /\ thCallback = FALSE
  /\ thPc = "idle"
  /\ thIdx = 0
  /\ thMainId = -1   \* None
  /\ thReplyIds = <<>>
  /\ thPosts = <<>>
  /\ thCalls = <<>>
  /\ thEdits = <<>>
  /\ thRet = "none"
  /\ thNextId = 1

CgIdle ==
  /\ cgStories = <<>>
  /\ cgCall = 0
  /\ cgPc = "off"
  /\ cgAttempt = 0
  /\ cgSnapshot = <<>>
  /\ cgCached = <<>>
  /\ cgUncached = <<>>
  /\ cgReqs = <<>>
  /\ cgSleeps = <<>>
  /\ cgLines = <<>>
  /\ cgLog = <<>>
  /\ cgEnd = ""
  /\ cgRet = <<>>
  /\ cgFiles = <<>>

TrIdle ==
  /\ trPrompt = <<>>
  /\ trTitles = <<>>
  /\ trCall = 0
  /\ trPc = "off"
  /\ trAttempt = 0
  /\ trCached = <<>>
  /\ trUncached = <<>>
  /\ trReqs = <<>>
  /\ trSleeps = <<>>
  /\ trLines = <<>>
  /\ trTranslations = <<>>
  /\ trEnd = ""
  /\ trRet = <<>>
  /\ trFiles = <<>>

FsIdle ==
  /\ fsPc = "off"
  /\ fsPage = 0
  /\ fsStories = <<>>
  /\ fsLog = <<>>
  /\ fsRet = <<>>

FaIdle ==
  /\ faStories = <<>>
  /\ faPc = "off"
  /\ faResults = <<>>
  /\ faTasks = <<>>
  /\ faFiles = <<>>
  /\ faAtStart = <<>>
  /\ faWrites = <<>>
  /\ faOrder = <<>>
  /\ faRet = <<>>

FmIdle ==
  /\ fmStories = <<>>
  /\ fmPc = "off"
  /\ fmRet = <<>>

GdIdle ==
  /\ gdKey = <<>>
  /\ gdPc = "off"
  /\ gdTop = <<>>
  /\ gdContents = <<>>
  /\ gdRequests = 0
  /\ gdTitles = <<>>
  /\ gdSummaries = <<>>
  /\ gdRet = <<>>
  /\ gdSelected = <<>>
  /\ gdShowSelected = <<>>
  /\ gdAskSelected = <<>>

PlIdle ==
  /\ plTitle = <<>>
  /\ plSummary = <<>>
  /\ plQuote = <<>>
  /\ plPc = "off"
  /\ plRet = <<>>

CsIdle ==
  /\ csTitle = <<>>
  /\ csDomain = <<>>
  /\ csPc = "off"
  /\ csRet = <<>>

FrIdle ==
  /\ frFiles = <<>>
  /\ frUrl = <<>>
  /\ frPc = "off"
  /\ frText = <<>>
  /\ frHad = FALSE
  /\ frRequests = <<>>
  /\ frLog = <<>>

RnIdle ==
  /\ rnStory = <<>>
  /\ rnTitles = <<>>
  /\ rnSummaries = <<>>
  /\ rnPc = "off"
  /\ rnRet = <<>>

StagesIdle ==
  CgIdle /\ TrIdle /\ FsIdle /\ FaIdle /\ FmIdle /\ GdIdle /\ PlIdle
    /\ CsIdle /\ FrIdle /\ RnIdle

\* no call of process_stories before this one that the API answered
NoPrev == [valid |-> FALSE, channel |-> "", end |-> "", ret |-> <<>>]

PrIdle ==
  /\ prStories = <<>>
  /\ prContents = <<>>
  /\ prKey = <<>>
  /\ prChannel = [language |-> "", prompt |-> ""]
  /\ prCall = 0
  /\ prPc = "off"
  /\ prAttempt = 0
  /\ prSnapshot = <<>>
  /\ prCached = <<>>
  /\ prReqs = <<>>
  /\ prSleeps = <<>>
  /\ prLines = <<>>
  /\ prLineLog = <<>>
  /\ prEnd = ""
  /\ prRet = <<>>
  /\ prPrev = NoPrev
  /\ cache = <<>>
  /\ cacheWrites = <<>>

InitSelect ==
  /\ ThIdle
  /\ PrIdle
  /\ StagesIdle
  /\ selStories \in SelLists \cup BadUrlLists
  /\ selLimit \in 0..MaxLimit
  /\ selResult = <<>>
  /\ selPc = "call"

\* one call of select_stories(selStories, selLimit)
SelectStories ==
  /\ selPc = "call"
  /\ IF SelectRaises(selStories)
       THEN selResult' = <<>> /\ selPc' = "raised"
       ELSE selResult' = select_stories(selStories, selLimit) /\ selPc' = "done"
  /\ UNCHANGED <<selStories, selLimit, thVars, prVars, stageVars>>

NextSelect == SelectStories

SpecSelect == InitSelect /\ [][NextSelect]_vars

(***************************************************************************)
(* post_thread (src/hndigest/telegram.py, src/hn_digest/telegram.py).      *)
(* Message i of the list is the number i (0 is the root); the texts are    *)
(* pairwise distinct.  post_to_telegram either returns the id the API      *)
(* assigned or, on any exception, None.                                    *)
(***************************************************************************)
\* the None that post_to_telegram returns on failure, and an absent reply_to
NoneId == -1

\* reply_categories=None
NoCats == <<"None">>

CatNames == <<"ai", "dev", "ops", "data">>

ThCatChoices == {NoCats} \cup {SubSeq(CatNames, 1, k) : k \in 0..(MaxMsgs - 1)}

\* `if reply_categories` : neither None nor empty
CatsGiven(cats) == cats # NoCats /\ cats # <<>>

PostRecord(msg, replyTo, id) == [msg |-> msg, reply_to |-> replyTo, id |-> id]

InitThread ==
  /\ SelIdle
  /\ PrIdle
  /\ StagesIdle
  /\ thVersion \in {"hndigest", "hn_digest"}
  /\ thMsgs \in 0..MaxMsgs
  /\ thCats \in ThCatChoices
  /\ thCallback \in BOOLEAN
  \* the hn_digest version takes neither reply_categories nor a callback
  /\ thVersion = "hn_digest" => thCats = NoCats /\ thCallback = FALSE
  /\ thPc = "start"
  /\ thIdx = 0
  /\ thMainId = NoneId
  /\ thReplyIds = <<>>
  /\ thPosts = <<>>
  /\ thCalls = <<>>
  /\ thEdits = <<>>
  /\ thRet = "none"
  /\ thNextId = 1

\* `if not messages: return False`
ThreadEmpty ==
  /\ thPc = "start"
  /\ thMsgs = 0
  /\ thRet' = "False"
  /\ thPc' = "done"
  /\ UNCHANGED <<selVars, prVars, stageVars, thArgs, thIdx, thMainId, thReplyIds, thPosts, thCalls, thEdits,
                 thNextId>>

\* main_id = post_to_telegram(token, chat_id, messages[0]) returns an id
PostRootOk ==
  /\ thPc = "start"
  /\ thMsgs > 0
  /\ thPosts' = Append(thPosts, PostRecord(0, NoneId, thNextId))
  /\ thMainId' = thNextId
  /\ thNextId' = thNextId + 1
  /\ thIdx' = 1
  /\ thPc' = "replies"
  /\ UNCHANGED <<selVars, prVars, stageVars, thArgs, thReplyIds, thCalls, thEdits, thRet>>

\* a variant that goes on to the replies although main_id is None
PostRootFail_KeepsGoing ==
  /\ thPc = "start"
  /\ thMsgs > 0
  /\ thPosts' = Append(thPosts, PostRecord(0, NoneId, NoneId))
  /\ thIdx' = 1
  /\ thPc' = "replies"
  /\ UNCHANGED <<selVars, prVars, stageVars, thArgs, thMainId, thReplyIds, thCalls, thEdits, thRet,
                 thNextId>>

\* main_id is None: return False
PostRootFail ==
  /\ thPc = "start"
  /\ thMsgs > 0
  /\ thPosts' = Append(thPosts, PostRecord(0, NoneId, NoneId))
  /\ thRet' = "False"
  /\ thPc' = "done"
  /\ UNCHANGED <<selVars, prVars, stageVars, thArgs, thIdx, thMainId, thReplyIds, thCalls, thEdits, thNextId>>

\* a variant without the test `msg_id is not None`
CollectReply_KeepsNone(version, replyIds, id) ==
  IF version = "hndigest" THEN Append(replyIds, id) ELSE replyIds

\* reply_ids after a reply that got the id `id` (the hn_digest version keeps none)
CollectReply(version, replyIds, id) ==
  IF version = "hndigest" /\ id # NoneId THEN Append(replyIds, id) ELSE replyIds

\* one pass of `for msg in messages[1:]`, the post succeeding
PostReplyOk ==
  /\ thPc = "replies"
  /\ thIdx < thMsgs
  /\ thPosts' = Append(thPosts, PostRecord(thIdx, thMainId, thNextId))
  /\ thReplyIds' = CollectReply(thVersion, thReplyIds, thNextId)
  /\ thNextId' = thNextId + 1
  /\ thIdx' = thIdx + 1
  /\ UNCHANGED <<selVars, prVars, stageVars, thArgs, thPc, thMainId, thCalls, thEdits, thRet>>

\* a variant that gives up the thread at the first failed reply
PostReplyFail_Aborts ==
  /\ thPc = "replies"
  /\ thIdx < thMsgs
  /\ thPosts' = Append(thPosts, PostRecord(thIdx, thMainId, NoneId))
  /\ thRet' = "False"
  /\ thPc' = "done"
  /\ UNCHANGED <<selVars, prVars, stageVars, thArgs, thIdx, thMainId, thReplyIds, thCalls, thEdits,
                 thNextId>>

\* one pass of `for msg in messages[1:]`, the post failing
PostReplyFail ==
  /\ thPc = "replies"
  /\ thIdx < thMsgs
  /\ thPosts' = Append(thPosts, PostRecord(thIdx, thMainId, NoneId))
  /\ thReplyIds' = CollectReply(thVersion, thReplyIds, NoneId)
  /\ thIdx' = thIdx + 1
  /\ UNCHANGED <<selVars, prVars, stageVars, thArgs, thPc, thMainId, thCalls, thEdits, thRet, thNextId>>

\* the condition without the comparison of the two lengths
WantsEdit_AnyCount ==
  /\ thVersion = "hndigest"
  /\ CatsGiven(thCats)
  /\ thCallback

\* the condition of line 80
WantsEdit ==
  /\ thVersion = "hndigest"
  /\ CatsGiven(thCats)
  /\ thCallback
  /\ Len(thReplyIds) = Len(thCats)

\* the call edit_main_callback(messages[0], reply_categories, reply_ids)
CallbackCall == [cats |-> thCats, ids |-> thReplyIds, posts |-> Len(thPosts)]

\* after the loop, the condition of line 80 false: return True
ThreadReturn ==
  /\ thPc = "replies"
  /\ thIdx >= thMsgs
  /\ ~WantsEdit
  /\ thRet' = "True"
  /\ thPc' = "done"
  /\ UNCHANGED <<selVars, prVars, stageVars, thArgs, thIdx, thMainId, thReplyIds, thPosts, thCalls,
                 thEdits, thNextId>>

\* after the loop: the callback returns messages[0] itself, no edit
ThreadCallbackSame ==
  /\ thPc = "replies"
  /\ thIdx >= thMsgs
  /\ WantsEdit
  /\ thCalls' = Append(thCalls, CallbackCall)
  /\ thRet' = "True"
  /\ thPc' = "done"
  /\ UNCHANGED <<selVars, prVars, stageVars, thArgs, thIdx, thMainId, thReplyIds, thPosts, thEdits,
                 thNextId>>

\* a variant that returns what edit_message returned
ThreadEdit_ReturnsEditResult ==
  /\ thPc = "replies"
  /\ thIdx >= thMsgs
  /\ WantsEdit
  /\ thCalls' = Append(thCalls, CallbackCall)
  /\ \E ok \in BOOLEAN :
       /\ thEdits' = Append(thEdits, [message_id |-> thMainId, posts |-> Len(thPosts),
                                      ok |-> ok])
       /\ thRet' = IF ok THEN "True" ELSE "False"
  /\ thPc' = "done"
  /\ UNCHANGED <<selVars, prVars, stageVars, thArgs, thIdx, thMainId, thReplyIds,
                 thPosts, thNextId>>

\* after the loop: the callback returns another text and edit_message is
\* called once; it returns True or, on any exception, False
ThreadEdit ==
  /\ thPc = "replies"
  /\ thIdx >= thMsgs
  /\ WantsEdit
  /\ thCalls' = Append(thCalls, CallbackCall)
  /\ \E ok \in BOOLEAN :
       thEdits' = Append(thEdits, [message_id |-> thMainId, posts |-> Len(thPosts),
                                   ok |-> ok])
  /\ thRet' = "True"
  /\ thPc' = "done"
  /\ UNCHANGED <<selVars, prVars, stageVars, thArgs, thIdx, thMainId, thReplyIds, thPosts, thNextId>>

NextThread ==
  \/ ThreadEmpty
  \/ PostRootOk
  \/ PostRootFail
  \/ PostReplyOk
  \/ PostReplyFail
  \/ ThreadReturn
  \/ ThreadCallbackSame
  \/ ThreadEdit

SpecThread == InitThread /\ [][NextThread]_vars

(***************************************************************************)
(* Response parsing and the enrichment cache (src/hn_digest/process.py,    *)
(* _extract_field of src/hndigest/categorize.py).                          *)
(***************************************************************************)
S_category == <<"c", "a", "t", "e", "g", "o", "r", "y">>

S_rank == <<"r", "a", "n", "k">>

S_title == <<"t", "i", "t", "l", "e">>

S_summary == <<"s", "u", "m", "m", "a", "r", "y">>

S_top == <<"t", "o", "p">>

S_regular == <<"r", "e", "g", "u", "l", "a", "r">>

S_other == <<"o", "t", "h", "e", "r">>

\* VALID_CATEGORIES of hn_digest.categorize: the categories of the digest
\* (the names the prompt asks for, the two thread kinds, the bucket "other")
VALID_CATEGORIES ==
  { <<"a", "i">>, <<"c", "o", "d", "e">>, <<"d", "a", "t", "a">>,
    <<"s", "c", "i", "e", "n", "c", "e">>,
    <<"s", "e", "c", "u", "r", "i", "t", "y">>,
    <<"d", "e", "s", "i", "g", "n">>,
    <<"b", "u", "s", "i", "n", "e", "s", "s">>,
    <<"w", "o", "r", "k">>, <<"l", "e", "a", "r", "n">>,
    <<"s", "h", "o", "w", "_", "h", "n">>, <<"a", "s", "k", "_", "h", "n">>,
    S_other }

\* _extract_field(text, field): the value of the first comma-separated part
\* that starts with "field=", "" when there is none
ExtractField(text, field) ==
  LET parts == Split(text, ",")
      hits == {i \in 1..Len(parts) : StartsWith(Strip(parts[i]), field \o <<"=">>)}
      first == CHOOSE i \in hits : \A j \in hits : i <= j
  IN IF hits = {} THEN <<>>
     ELSE Strip(SplitOnce(Strip(parts[first]), "=")[2])

StoryResult(category, isTop, translation, summary) ==
  [category |-> category, is_top |-> isTop, translation |-> translation,
   summary |-> summary]

\* stands where the code has no StoryResult (None)
NoResult == StoryResult(<<>>, FALSE, <<>>, <<>>)

\* _parse_cache_line(val); ok = FALSE stands for None
ParseCacheLine(val) ==
  LET cat == ExtractField(val, S_category)
      rank == ExtractField(val, S_rank)
      title == ExtractField(val, S_title)
      summary == ExtractField(val, S_summary)
  IN IF cat \notin VALID_CATEGORIES
       THEN [ok |-> FALSE, result |-> NoResult]
       ELSE [ok |-> TRUE, result |-> StoryResult(cat, rank = S_top, title, summary)]

\* what write_text leaves in a file it has opened when the write of `text`
\* then raises (OSError: the disk is full): open(path, "w") has emptied the
\* file and a part of the text, possibly none of it, is in it.  The texts
\* the model writes are ASCII, so that a part is a prefix of the characters.
WriteCuts(text) == 0..(Len(text) - 1)

PartialWrites(text) == {SubSeq(text, 1, n) : n \in WriteCuts(text)}

\* _serialize_result(r)
SerializeResult(r) ==
  S_category \o <<"=">> \o r.category
    \o <<",">> \o S_rank \o <<"=">> \o (IF r.is_top THEN S_top ELSE S_regular)
    \o <<",">> \o S_title \o <<"=">> \o r.translation
    \o <<",">> \o S_summary \o <<"=">> \o r.summary

NotParsed == [ok |-> FALSE, num |-> 0, result |-> NoResult]

\* _parse_result_line(line); ok = FALSE stands for None, num is 0-based
ParseResultLine(line) ==
  LET l == Strip(line)
      parts == SplitOnce(l, ".")
      n == ToInt(Strip(parts[1]))
      rest == Strip(parts[2])
      restLower == Lower(rest)
      cat == ExtractField(restLower, S_category)
      rank == ExtractField(restLower, S_rank)
      title == ExtractField(rest, S_title)
      summary == ExtractField(rest, S_summary)
  IN IF l = <<>> \/ ~IsDigit(l[1]) THEN NotParsed
     ELSE IF Len(parts) # 2 THEN NotParsed
     ELSE IF ~n.ok THEN NotParsed
     ELSE [ok |-> TRUE,
           num |-> n.n - 1,
           result |-> StoryResult(IF cat \in VALID_CATEGORIES THEN cat ELSE S_other,
                                  rank = S_top,
                                  StripSet(title, QuoteChars),
                                  StripSet(summary, QuoteChars))]

\* contents.get(id, "")
ContentsGet(contents, id) == IF id \in DOMAIN contents THEN contents[id] ELSE <<>>

\* hashlib.md5(content.encode()).hexdigest()[:8] of the article texts of the
\* model, as the code computes it: 32 bits of the digest, so that two texts
\* may share a value (c5373 and c45389 do)
ContentDigests ==
  (<<"t", "x", "t">> :> <<"c", "7", "8", "2", "4", "f", "3", "d">>)
    @@ (<<"c", "5", "3", "7", "3">> :> <<"f", "5", "c", "8", "b", "1", "4", "2">>)
    @@ (<<"c", "4", "5", "3", "8", "9">> :> <<"f", "5", "c", "8", "b", "1", "4", "2">>)

\* _content_hash(content) if content else "empty"
ContentHash(content) ==
  IF content # <<>> THEN ContentDigests[content] ELSE <<"e", "m", "p", "t", "y">>

\* _cache_key_for_story(story, content, language): the name of the cache
\* file, md5 of "process_v1|id|title|content_h|language". The full digest is
\* taken injective, and so is the joined text in its four parts: the id and
\* content_h hold no "|", nor does a language of config.py
CacheKey(story, content, language) ==
  <<"process_v1", story.id, story.title, ContentHash(content), language>>

\* the characters of article text the prompt carries per story
ArticleBudget == 12000

Min(a, b) == IF a <= b THEN a ELSE b

\* _build_prompt(stories, contents, channel): the stories numbered from 1,
\* the translation instruction and the language
BuildPrompt(stories, contents, channel) ==
  [instruction |-> IF channel.prompt # ""
                     THEN <<"translate", channel.language, channel.prompt>>
                     ELSE <<"keep">>,
   language |-> channel.language,
   stories |-> [i \in 1..Len(stories) |->
                  LET content == ContentsGet(contents, stories[i].id)
                  IN [n |-> i, title |-> stories[i].title,
                      points |-> stories[i].points,
                      comments |-> stories[i].comments,
                      article |-> SubSeq(content, 1, Min(Len(content), ArticleBudget))]]]

\* the channels of config.py as far as process_stories reads them
Channels ==
  { [language |-> "uz", prompt |-> "Sarlavhani tarjima qil"],
    [language |-> "en", prompt |-> ""] }

ProcStory(id) ==
  [id |-> id, title |-> <<"T", LowerAlpha[id]>>, points |-> 10 * id, comments |-> id]

\* the batches: lists of stories with distinct ids
Batches ==
  UNION {{[i \in 1..n |-> ProcStory(q[i])] :
            q \in {f \in [1..n -> 1..MaxBatch] : \A i, j \in 1..n : i # j => f[i] # f[j]}}
         : n \in 0..MaxBatch}

\* article text was fetched for story 1 only
ContentChoices == { (1 :> <<"t", "x", "t">>) }

\* lines the generation API may answer with
\* 1. category=ai, rank=top, title=Ab, summary=Cd
LineFirst ==
  <<"1", ".", " ">> \o S_category \o <<"=", "a", "i", ",", " ">> \o S_rank
    \o <<"=">> \o S_top \o <<",", " ">> \o S_title \o <<"=", "A", "b", ",", " ">>
    \o S_summary \o <<"=", "C", "d">>

\* the first line with its number in Arabic-Indic digits (U+0661)
LineFirstArabic == <<"u0661">> \o Tail(LineFirst)

\* 2. category=code, rank=regular, title="Xy", summary='Z'
LineSecond ==
  <<"2", ".", " ">> \o S_category \o <<"=", "c", "o", "d", "e", ",", " ">> \o S_rank
    \o <<"=">> \o S_regular \o <<",", " ">> \o S_title
    \o <<"=", "\"", "X", "y", "\"", ",", " ">> \o S_summary \o <<"=", "'", "Z", "'">>

\* 3. category=security, rank=top, title=Ef, summary=Gh
LineThird ==
  <<"3", ".", " ">> \o S_category
    \o <<"=", "s", "e", "c", "u", "r", "i", "t", "y", ",", " ">> \o S_rank
    \o <<"=">> \o S_top \o <<",", " ">> \o S_title \o <<"=", "E", "f", ",", " ">>
    \o S_summary \o <<"=", "G", "h">>

\* 1. category=misc, rank=Top, title=T, summary=S
LineUnknownCategory ==
  <<"1", ".", " ">> \o S_category \o <<"=", "m", "i", "s", "c", ",", " ">> \o S_rank
    \o <<"=", "T", "o", "p", ",", " ">> \o S_title \o <<"=", "T", ",", " ">>
    \o S_summary \o <<"=", "S">>

\*  1. category=data, rank=top, title=" q", summary=r   (indented)
LineIndented ==
  <<" ", "1", ".", " ">> \o S_category \o <<"=", "d", "a", "t", "a", ",", " ">>
    \o S_rank \o <<"=">> \o S_top \o <<",", " ">> \o S_title
    \o <<"=", "\"", " ", "q", "\"", ",", " ">> \o S_summary \o <<"=", "r">>

\* Here:
LineProse == <<"H", "e", "r", "e", ":">>

\* 9. category=ai, rank=top
LineBeyond ==
  <<"9", ".", " ">> \o S_category \o <<"=", "a", "i", ",", " ">> \o S_rank
    \o <<"=">> \o S_top

\* 0. category=ai
LineZero == <<"0", ".", " ">> \o S_category \o <<"=", "a", "i">>

\* 1x. category=ai
LineNotNumber == <<"1", "x", ".", " ">> \o S_category \o <<"=", "a", "i">>

\* the response texts of the model: the empty text, complete and incomplete
\* answers, answers with unusable lines before or after a usable one, an
\* answer that names a story twice
Responses ==
  { <<>>,
    LineFirst,
    LineFirstArabic,
    LineSecond,
    Join(<<LineFirst, LineSecond>>, "\n"),
    Join(<<LineSecond, LineThird>>, "\n"),
    Join(<<LineBeyond, LineUnknownCategory>>, "\n"),
    Join(<<LineProse, LineIndented>>, "\n"),
    Join(<<LineFirst, LineIndented>>, "\n"),
    Join(<<LineFirst, LineNotNumber>>, "\n"),
    Join(<<LineZero, LineNotNumber>>, "\n") }

\* response_text.split("\n") of the stripped response text
ResponseLines(text) == Split(Strip(text), "\n")

\* ResponseLines and _parse_result_line on the texts and lines of the model,
\* each computed once: `@@ <<>>` makes a table an explicit function, whose
\* values are computed when the table is built and not at every use
LinesOfResponse == [text \in Responses |-> ResponseLines(text)] @@ <<>>

LinesSeen == UNION {{LinesOfResponse[t][i] : i \in 1..Len(LinesOfResponse[t])} : t \in Responses}

ParseTable == [line \in LinesSeen |-> ParseResultLine(line)] @@ <<>>

ParsedLine(line) == ParseTable[line]

\* the texts process_stories writes to cache files, and _parse_cache_line of
\* the stripped text of each, computed once
OkResults(table) == {table[l].result : l \in {x \in DOMAIN table : table[x].ok}}

ResultTexts == {SerializeResult(r) : r \in OkResults(ParseTable)}

\* the texts and what a write of one of them that raised may leave of it
WithPartialWrites(texts) == texts \cup UNION {PartialWrites(text) : text \in texts}

CacheTexts == WithPartialWrites(ResultTexts)

CacheLineTable == [val \in CacheTexts |-> ParseCacheLine(Strip(ReadText(val)))] @@ <<>>

\* _parse_cache_line(cache_file.read_text().strip())
ParsedCacheFile(val) == CacheLineTable[val]

\* the loop of lines 177-186: the `cached` map read from the files
\* `if result: cached[s["id"]] = result` for what _parse_cache_line gave
WithCached(id, parsed, cached) ==
  IF parsed.ok THEN (id :> parsed.result) @@ cached ELSE cached

RECURSIVE CheckCache(_, _, _, _, _)
CheckCache(stories, contents, language, files, cached) ==
  IF stories = <<>> THEN cached
  ELSE LET s == Head(stories)
           key == CacheKey(s, ContentsGet(contents, s.id), language)
       IN CheckCache(Tail(stories), contents, language, files,
                     IF key \in DOMAIN files
                       THEN WithCached(s.id, ParsedCacheFile(files[key]), cached)
                       ELSE cached)

\* what one line of the response did: nothing, or a result stored under a
\* story id and written to a cache file
NoEffect == [hit |-> FALSE, id |-> 0, key |-> <<>>, result |-> NoResult]

LineEffect(id, key, result) == [hit |-> TRUE, id |-> id, key |-> key, result |-> result]

\* 0 <= num < len(stories)
InRange(num, n) == 0 <= num /\ num < n

WriteCount(writes, key) == IF key \in DOMAIN writes THEN writes[key] ELSE 0

\* the line whose write_text raised: its result is in `results`, which the
\* call then drops; its file is as it was when open() raised, and holds
\* nothing or a part of the text when the write raised after open()
FailedWrite(out, id, key, result) ==
  LET log == Append(out.log, [hit |-> FALSE, id |-> id, key |-> key, result |-> result])
  IN {[log |-> log, files |-> out.files, writes |-> out.writes]}
     \cup {[log |-> log, files |-> (key :> part) @@ out.files,
            writes |-> (key :> (WriteCount(out.writes, key) + 1)) @@ out.writes] :
             part \in PartialWrites(SerializeResult(result))}

\* the outcomes of the failing write of a line for `story`, after `out`
LineWriteFails(out, story, contents, language, result) ==
  FailedWrite(out, story.id, CacheKey(story, ContentsGet(contents, story.id), language), result)

\* results[story.id] = result and cache_path.write_text(_serialize_result(result))
\* for the story a line names; acc holds the results map, the cache files, the
\* writes per file and the log of the lines
StoreResult(id, key, result, acc) ==
  [results |-> (id :> result) @@ acc.results,
   files |-> (key :> SerializeResult(result)) @@ acc.files,
   writes |-> (key :> (WriteCount(acc.writes, key) + 1)) @@ acc.writes,
   log |-> Append(acc.log, LineEffect(id, key, result))]

StoreFor(story, result, contents, language, acc) ==
  StoreResult(story.id, CacheKey(story, ContentsGet(contents, story.id), language),
              result, acc)

\* the body of the loop for one line: `if not parsed: continue`, then
\* `if 0 <= num < len(stories)`
ProcessLine(parsed, stories, contents, language, acc) ==
  IF ~parsed.ok \/ ~InRange(parsed.num, Len(stories))
    THEN [acc EXCEPT !.log = Append(@, NoEffect)]
    ELSE StoreFor(stories[parsed.num + 1], parsed.result, contents, language, acc)

\* the loop of lines 210-224 over the lines of the response
RECURSIVE ProcessLines(_, _, _, _, _)
ProcessLines(lines, stories, contents, language, acc) ==
  IF lines = <<>> THEN acc
  ELSE ProcessLines(Tail(lines), stories, contents, language,
                    ProcessLine(ParsedLine(Head(lines)), stories, contents,
                                language, acc))

(***************************************************************************)
(* process_stories (src/hn_digest/process.py).                             *)
(***************************************************************************)
\* range(3): the attempts of one call
MaxAttempts == 3

\* wait = (attempt + 1) * 10
BackoffStep == 10

RateLimited == 429

\* a value of GEMINI_API_KEY
ApiKey == <<"k">>

\* what a call is given as api_key: nothing (the variable is not set) or a key
ApiKeys == {<<>>, ApiKey}

\* the cache directory starts empty; every call of a behaviour gets the same
\* stories and contents, and the channel the first call is given
InitProcess ==
  /\ SelIdle
  /\ ThIdle
  /\ StagesIdle
  /\ prStories \in Batches
  /\ prContents \in ContentChoices
  /\ prKey = <<>>
  /\ prChannel = [language |-> "", prompt |-> ""]
  /\ prCall = 0
  /\ prPc = "idle"
  /\ prAttempt = 0
  /\ prSnapshot = <<>>
  /\ prCached = <<>>
  /\ prReqs = <<>>
  /\ prSleeps = <<>>
  /\ prLines = <<>>
  /\ prLineLog = <<>>
  /\ prEnd = ""
  /\ prRet = <<>>
  /\ prPrev = NoPrev
  /\ cache = <<>>
  /\ cacheWrites = <<>>

\* the `cached` map of a call that starts now for channel ch
CachedNow(ch) == CheckCache(prStories, prContents, ch.language, cache, <<>>)

\* what every call leaves behind of the call before it as it starts
BeginCall(ch) ==
  /\ prPc \in {"idle", "done"}
  /\ prCall < MaxCalls
  \* the calls of a behaviour are those of one channel
  /\ prCall = 0 \/ ch = prChannel
  /\ prCall' = prCall + 1
  /\ prChannel' = ch
  /\ prPrev' = IF prCall = 0 \/ prEnd # "ok" THEN NoPrev
               ELSE [valid |-> TRUE, channel |-> prChannel.language, end |-> prEnd,
                     ret |-> prRet]
  /\ prSnapshot' = cache
  /\ prAttempt' = 0
  /\ prReqs' = <<>>
  /\ prSleeps' = <<>>
  /\ prLines' = <<>>
  /\ prLineLog' = <<>>
  /\ UNCHANGED <<selVars, thVars, stageVars, prArgs, cache, cacheWrites>>

\* a test that never takes the early return
AllCached_Never(cached, stories) == FALSE

\* len(cached) == len(stories)
AllCached(cached, stories) == Cardinality(DOMAIN cached) = Len(stories)

\* `if not api_key or not stories: return {}`: the cache is not read
ProcessCallEmpty ==
  \E ch \in Channels, key \in ApiKeys :
    /\ BeginCall(ch)
    /\ key = <<>> \/ prStories = <<>>
    /\ prKey' = key
    /\ prCached' = <<>>
    /\ prRet' = <<>>
    /\ prEnd' = "empty"
    /\ prPc' = "done"

\* the early return with the `cached` map of the cache check
ReturnCached(cached) ==
  /\ AllCached(cached, prStories)
  /\ prCached' = cached
  /\ prRet' = cached
  /\ prEnd' = "cached"
  /\ prPc' = "done"

\* the way into the loop with the `cached` map of the cache check
EnterLoop(cached) ==
  /\ ~AllCached(cached, prStories)
  /\ prCached' = cached
  /\ prRet' = <<>>
  /\ prEnd' = ""
  /\ prPc' = "request"

\* `if len(cached) == len(stories): return cached`
ProcessCallAllCached ==
  \E ch \in Channels, key \in ApiKeys :
    /\ BeginCall(ch)
    /\ key # <<>> /\ prStories # <<>>
    /\ prKey' = key
    /\ ReturnCached(CachedNow(ch))

\* some story has no valid cache entry: the prompt is built, the loop entered
ProcessCallMiss ==
  \E ch \in Channels, key \in ApiKeys :
    /\ BeginCall(ch)
    /\ key # <<>> /\ prStories # <<>>
    /\ prKey' = key
    /\ EnterLoop(CachedNow(ch))

\* _build_prompt on the batches, contents and channels of the model, each
\* computed once
PromptOf ==
  [stories \in Batches, contents \in ContentChoices, channel \in Channels |->
     BuildPrompt(stories, contents, channel)] @@ <<>>

\* the request session.post sends in this attempt: its prompt, the seconds
\* slept since the request before it, and how it ended
\* (code: the HTTP status, 0 when the request raised before one arrived)
Request(status, code) ==
  [prompt |-> PromptOf[prStories, prContents, prChannel],
   attempt |-> prAttempt,
   waited |-> IF prSleeps = <<>> THEN 0 ELSE prSleeps[Len(prSleeps)],
   status |-> status,
   code |-> code]

\* statuses raise_for_status turns into HTTPStatusError
ErrorStatuses == {400, 429, 500, 503}

\* a retry that starts from the entries the cache check found
NewResults_CachedOnRetry(attempt, cached) == IF attempt > 0 THEN cached ELSE <<>>

\* `results: dict[int, StoryResult] = {}` at the top of the try block of
\* every attempt
NewResults(attempt, cached) == <<>>

\* the response arrives and every line of it is processed: return results
ProcessResponse ==
  /\ prPc = "request"
  /\ \E text \in Responses :
       LET lines == LinesOfResponse[text]
           out == ProcessLines(lines, prStories, prContents, prChannel.language,
                               [results |-> NewResults(prAttempt, prCached), files |-> cache,
                                writes |-> cacheWrites, log |-> <<>>])
       IN /\ prLines' = lines
          /\ prLineLog' = out.log
          /\ cache' = out.files
          /\ cacheWrites' = out.writes
          /\ prRet' = out.results
  /\ prReqs' = Append(prReqs, Request("ok", 200))
  /\ prEnd' = "ok"
  /\ prPc' = "done"
  /\ UNCHANGED <<selVars, thVars, stageVars, prArgs, prKey, prChannel, prCall, prAttempt, prSnapshot,
                 prCached, prSleeps, prPrev>>

\* the line of the response at which write_text raises: a line that names a
\* story of the batch (parsed: what _parse_result_line makes of the line)
WritesFile(parsed, stories) ==
  parsed.ok /\ InRange(parsed.num, Len(stories))

\* the lines up to the one whose write raises, which parsed as `parsed`
WriteFailsAt(lines, parsed) ==
  /\ WritesFile(parsed, prStories)
  /\ prLines' = lines
  /\ \E o \in LineWriteFails(
               ProcessLines(SubSeq(lines, 1, Len(lines) - 1), prStories,
                            prContents, prChannel.language,
                            [results |-> NewResults(prAttempt, prCached), files |-> cache,
                             writes |-> cacheWrites, log |-> <<>>]),
               prStories[parsed.num + 1], prContents, prChannel.language,
               parsed.result) :
       /\ prLineLog' = o.log
       /\ cache' = o.files
       /\ cacheWrites' = o.writes

\* the response arrives, the lines before line k are processed and their
\* files written, then write_text of line k raises: `except Exception`,
\* break, return cached.  Either open() raised (the directory is read-only)
\* and the file of line k is as it was, or open() emptied the file and the
\* write raised (the disk is full), which leaves a part of the text in it.
ProcessWriteFails ==
  /\ prPc = "request"
  /\ \E text \in Responses :
       \E k \in 1..Len(LinesOfResponse[text]) :
         WriteFailsAt(SubSeq(LinesOfResponse[text], 1, k),
                      ParsedLine(LinesOfResponse[text][k]))
  /\ prReqs' = Append(prReqs, Request("ok", 200))
  /\ prRet' = prCached
  /\ prEnd' = "failed"
  /\ prPc' = "done"
  /\ UNCHANGED <<selVars, thVars, stageVars, prArgs, prKey, prChannel, prCall, prAttempt, prSnapshot,
                 prCached, prSleeps, prPrev>>

\* a wait that does not grow with the attempt
Backoff_Constant(attempt) == BackoffStep

\* wait = (attempt + 1) * 10 after the 429 of attempt `attempt` (0-based)
Backoff(attempt) == (attempt + 1) * BackoffStep

\* HTTPStatusError with status 429: sleep, then the next attempt; after the
\* last attempt the loop ends and `cached` is returned
ProcessRateLimited ==
  /\ prPc = "request"
  /\ prReqs' = Append(prReqs, Request("http_error", RateLimited))
  /\ prSleeps' = Append(prSleeps, Backoff(prAttempt))
  /\ prAttempt' = prAttempt + 1
  /\ IF prAttempt + 1 >= MaxAttempts
       THEN prRet' = prCached /\ prEnd' = "failed" /\ prPc' = "done"
       ELSE UNCHANGED <<prRet, prEnd, prPc>>
  /\ UNCHANGED <<selVars, thVars, stageVars, prArgs, prKey, prChannel, prCall, prSnapshot, prCached,
                 prLines, prLineLog, prPrev, cache, cacheWrites>>

\* a failure path that returns nothing instead of `cached`
ProcessHttpError_ReturnsNothing ==
  /\ prPc = "request"
  /\ \E code \in ErrorStatuses \ {RateLimited} :
       prReqs' = Append(prReqs, Request("http_error", code))
  /\ prRet' = <<>>
  /\ prEnd' = "failed"
  /\ prPc' = "done"
  /\ UNCHANGED <<selVars, thVars, stageVars, prArgs, prKey, prChannel, prCall, prAttempt, prSnapshot,
                 prCached, prSleeps, prLines, prLineLog, prPrev, cache, cacheWrites>>

\* HTTPStatusError with another status: break, return cached
ProcessHttpError ==
  /\ prPc = "request"
  /\ \E code \in ErrorStatuses \ {RateLimited} :
       prReqs' = Append(prReqs, Request("http_error", code))
  /\ prRet' = prCached
  /\ prEnd' = "failed"
  /\ prPc' = "done"
  /\ UNCHANGED <<selVars, thVars, stageVars, prArgs, prKey, prChannel, prCall, prAttempt, prSnapshot,
                 prCached, prSleeps, prLines, prLineLog, prPrev, cache, cacheWrites>>

\* any other exception of the request (timeout, connection error, a body
\* that is not the expected JSON): break, return cached
ProcessException ==
  /\ prPc = "request"
  /\ prReqs' = Append(prReqs, Request("exception", 0))
  /\ prRet' = prCached
  /\ prEnd' = "failed"
  /\ prPc' = "done"
  /\ UNCHANGED <<selVars, thVars, stageVars, prArgs, prKey, prChannel, prCall, prAttempt, prSnapshot,
                 prCached, prSleeps, prLines, prLineLog, prPrev, cache, cacheWrites>>

NextProcess ==
  \/ ProcessCallEmpty
  \/ ProcessCallAllCached
  \/ ProcessCallMiss
  \/ ProcessResponse
  \/ ProcessWriteFails
  \/ ProcessRateLimited
  \/ ProcessHttpError
  \/ ProcessException

Spec == InitProcess /\ [][NextProcess]_vars

(***************************************************************************)
(* categorize_and_rank_batch (src/hndigest/categorize.py).  The API is the *)
(* one of process_stories: the response texts, the retry loop and the      *)
(* backoff are those of the model above.                                   *)
(***************************************************************************)
S_culture == <<"c", "u", "l", "t", "u", "r", "e">>

\* VALID_CATEGORIES of hndigest.categorize
CATEGORIZE_VALID_CATEGORIES ==
  { <<"a", "i">>, <<"d", "e", "v">>, <<"o", "p", "s">>, <<"d", "a", "t", "a">>,
    <<"s", "c", "i", "e", "n", "c", "e">>,
    <<"s", "e", "c", "u", "r", "i", "t", "y">>,
    <<"t", "e", "c", "h">>, <<"c", "a", "r", "e", "e", "r">>, S_culture }

\* the name of a story's cache file: md5 of "cat_v1|id|title", taken injective
CategoryCacheKey(story) == <<"cat_v1", story.id, story.title>>

\* cache_val = f"category={cat},rank={'top' if is_top else 'regular'}"
CategoryCacheValue(entry) ==
  S_category \o <<"=">> \o entry.category \o <<",">> \o S_rank \o <<"=">>
    \o (IF entry.is_top THEN S_top ELSE S_regular)

\* the pair (category, is_top)
CategoryEntry(cat, isTop) == [category |-> cat, is_top |-> isTop]

\* _parse_cache_value(val): ("", False) when the category is not a valid one
ParseCacheValue(val) ==
  LET cat == ExtractField(val, S_category)
      rank == ExtractField(val, S_rank)
  IN IF cat \notin CATEGORIZE_VALID_CATEGORIES
       THEN CategoryEntry(<<>>, FALSE)
       ELSE CategoryEntry(cat, rank = S_top)

CategoryNotParsed == [ok |-> FALSE, num |-> 0, entry |-> CategoryEntry(<<>>, FALSE)]

\* the body of the parse loop for one line, without the range test: the
\* `continue` of lines 111-119, then the fields of lines 123-129; num is
\* 0-based
CategorizeLine(line) ==
  LET l == Strip(line)
      parts == SplitOnce(l, ".")
      n == ToInt(Strip(parts[1]))
      rest == Lower(Strip(parts[2]))
      cat == ExtractField(rest, S_category)
      rank == ExtractField(rest, S_rank)
  IN IF l = <<>> \/ ~IsDigit(l[1]) THEN CategoryNotParsed
     ELSE IF Len(parts) # 2 THEN CategoryNotParsed
     ELSE IF ~n.ok THEN CategoryNotParsed
     ELSE [ok |-> TRUE,
           num |-> n.n - 1,
           entry |-> CategoryEntry(IF cat \in CATEGORIZE_VALID_CATEGORIES
                                     THEN cat ELSE S_culture,
                                   rank = S_top)]

\* CategorizeLine on the lines of the model and _parse_cache_value on the
\* stripped texts the function writes, each computed once
CategorizeTable == [line \in LinesSeen |-> CategorizeLine(line)] @@ <<>>

CategorizedLine(line) == CategorizeTable[line]

OkEntries(table) == {table[l].entry : l \in {x \in DOMAIN table : table[x].ok}}

CategoryTexts == {CategoryCacheValue(e) : e \in OkEntries(CategorizeTable)}

CategoryCacheTexts == WithPartialWrites(CategoryTexts)

CategoryCacheTable ==
  [val \in CategoryCacheTexts |-> ParseCacheValue(Strip(ReadText(val)))] @@ <<>>

\* _parse_cache_value(cache_file.read_text().strip())
ParsedCategoryFile(val) == CategoryCacheTable[val]

\* the loop of lines 70-81: `cached` and `uncached` read from the files
\* `if cat: cached[s["id"]] = (cat, is_top); continue`, else
\* uncached.append(s), for what _parse_cache_value gave
WithCategoryEntry(s, entry, acc) ==
  IF entry.category # <<>>
    THEN [acc EXCEPT !.cached = (s.id :> entry) @@ @]
    ELSE [acc EXCEPT !.uncached = Append(@, s)]

RECURSIVE CheckCategoryCache(_, _, _)
CheckCategoryCache(stories, files, acc) ==
  IF stories = <<>> THEN acc
  ELSE LET s == Head(stories)
           key == CategoryCacheKey(s)
       IN CheckCategoryCache(Tail(stories), files,
            IF key \in DOMAIN files
              THEN WithCategoryEntry(s, ParsedCategoryFile(files[key]), acc)
              ELSE [acc EXCEPT !.uncached = Append(@, s)])

\* what one line did: nothing, or an entry stored under a story id and
\* written to a cache file
NoCategoryEffect == [hit |-> FALSE, id |-> 0, key |-> <<>>, entry |-> CategoryEntry(<<>>, FALSE)]

\* cached[s["id"]] = (cat, is_top) and cache_file.write_text(cache_val)
StoreCategory(story, entry, acc) ==
  [cached |-> (story.id :> entry) @@ acc.cached,
   files |-> (CategoryCacheKey(story) :> CategoryCacheValue(entry)) @@ acc.files,
   log |-> Append(acc.log, [hit |-> TRUE, id |-> story.id,
                            key |-> CategoryCacheKey(story), entry |-> entry])]

\* a loop body that takes the number of a line for a place in `stories`
CategorizeOneLine_ByBatchPlace(parsed, uncached, acc) ==
  IF ~parsed.ok \/ ~InRange(parsed.num, Len(cgStories))
    THEN [acc EXCEPT !.log = Append(@, NoCategoryEffect)]
    ELSE StoreCategory(cgStories[parsed.num + 1], parsed.entry, acc)

\* the body of the loop for one line: the `continue` cases, then
\* `if not (0 <= num < len(uncached)): continue`, then the store
CategorizeOneLine(parsed, uncached, acc) ==
  IF ~parsed.ok \/ ~InRange(parsed.num, Len(uncached))
    THEN [acc EXCEPT !.log = Append(@, NoCategoryEffect)]
    ELSE StoreCategory(uncached[parsed.num + 1], parsed.entry, acc)

\* the loop of lines 109-138 over the lines of the response
RECURSIVE CategorizeLines(_, _, _)
CategorizeLines(lines, uncached, acc) ==
  IF lines = <<>> THEN acc
  ELSE CategorizeLines(Tail(lines), uncached,
                       CategorizeOneLine(CategorizedLine(Head(lines)), uncached, acc))

\* the prompt: the uncached stories numbered from 1
CategorizePrompt(uncached) ==
  [i \in 1..Len(uncached) |->
     [n |-> i, title |-> uncached[i].title, points |-> uncached[i].points,
      comments |-> uncached[i].comments]]

\* the cache directory starts empty; every call of a behaviour gets the same
\* stories
InitCategorize ==
  /\ SelIdle
  /\ ThIdle
  /\ PrIdle
  /\ TrIdle
  /\ FsIdle
  /\ FaIdle
  /\ FmIdle
  /\ GdIdle
  /\ PlIdle
  /\ CsIdle
  /\ FrIdle
  /\ RnIdle
  /\ cgStories \in Batches
  /\ cgCall = 0
  /\ cgPc = "idle"
  /\ cgAttempt = 0
  /\ cgSnapshot = <<>>
  /\ cgCached = <<>>
  /\ cgUncached = <<>>
  /\ cgReqs = <<>>
  /\ cgSleeps = <<>>
  /\ cgLines = <<>>
  /\ cgLog = <<>>
  /\ cgEnd = ""
  /\ cgRet = <<>>
  /\ cgFiles = <<>>

\* `cached` and `uncached` of a call that starts now
CategoryCacheNow ==
  CheckCategoryCache(cgStories, cgFiles, [cached |-> <<>>, uncached |-> <<>>])

\* what every call does first (the api_key is not empty)
BeginCategorize ==
  /\ cgPc \in {"idle", "done"}
  /\ cgCall < MaxCalls
  /\ cgCall' = cgCall + 1
  /\ cgSnapshot' = cgFiles
  /\ cgAttempt' = 0
  /\ cgReqs' = <<>>
  /\ cgSleeps' = <<>>
  /\ cgLines' = <<>>
  /\ cgLog' = <<>>
  /\ UNCHANGED <<cgOthers, cgStories, cgFiles>>

\* `if not api_key or not stories: return {}`
CategorizeCallEmpty ==
  /\ BeginCategorize
  /\ cgStories = <<>>
  /\ cgCached' = <<>>
  /\ cgUncached' = <<>>
  /\ cgRet' = <<>>
  /\ cgEnd' = "empty"
  /\ cgPc' = "done"

\* the early return with what the cache check found
ReturnCategories(now) ==
  /\ now.uncached = <<>>
  /\ cgCached' = now.cached
  /\ cgUncached' = <<>>
  /\ cgRet' = now.cached
  /\ cgEnd' = "cached"
  /\ cgPc' = "done"

\* the way into the loop with what the cache check found
EnterCategorizeLoop(now) ==
  /\ now.uncached # <<>>
  /\ cgCached' = now.cached
  /\ cgUncached' = now.uncached
  /\ cgRet' = <<>>
  /\ cgEnd' = ""
  /\ cgPc' = "request"

\* `if not uncached: return cached`
CategorizeCallAllCached ==
  /\ BeginCategorize
  /\ cgStories # <<>>
  /\ ReturnCategories(CategoryCacheNow)

\* some story has no valid cache entry: the prompt is built, the loop entered
CategorizeCallMiss ==
  /\ BeginCategorize
  /\ cgStories # <<>>
  /\ EnterCategorizeLoop(CategoryCacheNow)

\* the request of this attempt and how it ended
CategorizeRequest(status, code) ==
  [prompt |-> CategorizePrompt(cgUncached), attempt |-> cgAttempt,
   status |-> status, code |-> code]

\* the response arrives and every line of it is processed: break, return
\* cached
CategorizeResponse ==
  /\ cgPc = "request"
  /\ \E text \in Responses :
       LET out == CategorizeLines(LinesOfResponse[text], cgUncached,
                                  [cached |-> cgCached, files |-> cgFiles, log |-> <<>>])
       IN /\ cgLines' = LinesOfResponse[text]
          /\ cgLog' = out.log
          /\ cgFiles' = out.files
          /\ cgCached' = out.cached
          /\ cgRet' = out.cached
  /\ cgReqs' = Append(cgReqs, CategorizeRequest("ok", 200))
  /\ cgEnd' = "ok"
  /\ cgPc' = "done"
  /\ UNCHANGED <<cgOthers, cgStories, cgCall, cgAttempt,
                 cgSnapshot, cgUncached, cgSleeps>>

\* the line at which write_text raises names an uncached story (parsed:
\* what the loop body makes of the line)
WritesCategoryFile(parsed, uncached) ==
  parsed.ok /\ InRange(parsed.num, Len(uncached))

\* the lines up to the one whose write raises, which parsed as `parsed`,
\* after the lines before it left `out`
CategoryWriteFailsAt(lines, parsed, out) ==
  /\ WritesCategoryFile(parsed, cgUncached)
  /\ cgLines' = lines
  /\ cgLog' = Append(out.log, [hit |-> FALSE, id |-> cgUncached[parsed.num + 1].id,
                              key |-> CategoryCacheKey(cgUncached[parsed.num + 1]),
                              entry |-> parsed.entry])
  /\ \/ cgFiles' = out.files
     \/ \E part \in PartialWrites(CategoryCacheValue(parsed.entry)) :
          cgFiles' = (CategoryCacheKey(cgUncached[parsed.num + 1]) :> part) @@ out.files
  /\ cgCached' = (cgUncached[parsed.num + 1].id :> parsed.entry) @@ out.cached
  /\ cgRet' = (cgUncached[parsed.num + 1].id :> parsed.entry) @@ out.cached

\* the response arrives, the lines before line k are processed, then
\* write_text of line k raises after cached[s["id"]] was set: `except
\* Exception`, break, return cached.  Either open() raised and the file of
\* line k is as it was, or open() emptied the file and the write raised,
\* which leaves a part of the text in it.
CategorizeWriteFails ==
  /\ cgPc = "request"
  /\ \E text \in Responses :
       \E k \in 1..Len(LinesOfResponse[text]) :
         CategoryWriteFailsAt(
           SubSeq(LinesOfResponse[text], 1, k),
           CategorizedLine(LinesOfResponse[text][k]),
           CategorizeLines(SubSeq(LinesOfResponse[text], 1, k - 1), cgUncached,
                           [cached |-> cgCached, files |-> cgFiles, log |-> <<>>]))
  /\ cgReqs' = Append(cgReqs, CategorizeRequest("ok", 200))
  /\ cgEnd' = "failed"
  /\ cgPc' = "done"
  /\ UNCHANGED <<cgOthers, cgStories, cgCall, cgAttempt,
                 cgSnapshot, cgUncached, cgSleeps>>

\* `return cached` of line 153 after the loop was left by a failure
CategorizeFailed(cached) == cached

\* HTTPStatusError with status 429: sleep, then the next attempt; after the
\* last attempt the loop ends and `cached` is returned
CategorizeRateLimited ==
  /\ cgPc = "request"
  /\ cgReqs' = Append(cgReqs, CategorizeRequest("http_error", RateLimited))
  /\ cgSleeps' = Append(cgSleeps, Backoff(cgAttempt))
  /\ cgAttempt' = cgAttempt + 1
  /\ IF cgAttempt + 1 >= MaxAttempts
       THEN cgRet' = CategorizeFailed(cgCached) /\ cgEnd' = "failed" /\ cgPc' = "done"
       ELSE UNCHANGED <<cgRet, cgEnd, cgPc>>
  /\ UNCHANGED <<cgOthers, cgStories, cgCall, cgSnapshot,
                 cgCached, cgUncached, cgLines, cgLog, cgFiles>>

\* HTTPStatusError with another status, or any other exception of the
\* request: break, return cached
CategorizeRequestFails ==
  /\ cgPc = "request"
  /\ \/ \E code \in ErrorStatuses \ {RateLimited} :
          cgReqs' = Append(cgReqs, CategorizeRequest("http_error", code))
     \/ cgReqs' = Append(cgReqs, CategorizeRequest("exception", 0))
  /\ cgRet' = CategorizeFailed(cgCached)
  /\ cgEnd' = "failed"
  /\ cgPc' = "done"
  /\ UNCHANGED <<cgOthers, cgStories, cgCall, cgAttempt,
                 cgSnapshot, cgCached, cgUncached, cgSleeps, cgLines, cgLog, cgFiles>>

NextCategorize ==
  \/ CategorizeCallEmpty
  \/ CategorizeCallAllCached
  \/ CategorizeCallMiss
  \/ CategorizeResponse
  \/ CategorizeWriteFails
  \/ CategorizeRateLimited
  \/ CategorizeRequestFails

SpecCategorize == InitCategorize /\ [][NextCategorize]_vars

(***************************************************************************)
(* translate_batch (src/hndigest/translate.py).  Indexes into `titles` are *)
(* 1-based here; `num` is 0-based as in the code.                          *)
(***************************************************************************)
\* prompt_base[:20] is the part of the prompt the cache key is made of
PromptKeyLen == 20

\* the name of a title's cache file: md5 of the text
\* f"{prompt_base[:20]}|{title}"; the digest is taken injective in that text
TranslationCacheKey(prompt, title) ==
  SubSeq(prompt, 1, Min(Len(prompt), PromptKeyLen)) \o <<"|">> \o title

\* the loop of lines 23-29: `cached` and `uncached_idx` read from the files
RECURSIVE CheckTranslationCache(_, _, _, _, _)
CheckTranslationCache(prompt, titles, i, files, acc) ==
  IF i > Len(titles) THEN acc
  ELSE CheckTranslationCache(prompt, titles, i + 1, files,
         IF TranslationCacheKey(prompt, titles[i]) \in DOMAIN files
           THEN [acc EXCEPT !.cached =
                   (i :> Strip(ReadText(files[TranslationCacheKey(prompt, titles[i])]))) @@ @]
           ELSE [acc EXCEPT !.uncached = Append(@, i)])

\* [cached.get(i, titles[i]) for i in range(len(titles))]
TranslatedTitles(titles, cached) ==
  [i \in 1..Len(titles) |-> IF i \in DOMAIN cached THEN cached[i] ELSE titles[i]]

\* the body of the parse loop for one line (lines 62-67): the line is
\* skipped, or int() raises ValueError, or it carries a translation
TranslateLine(line) ==
  LET l == Strip(line)
      parts == SplitOnce(l, ".")
      n == ToInt(Strip(parts[1]))
  IN IF l = <<>> \/ ~IsDigit(l[1]) THEN [kind |-> "skip", num |-> 0, trans |-> <<>>]
     ELSE IF Len(parts) # 2 THEN [kind |-> "skip", num |-> 0, trans |-> <<>>]
     ELSE IF ~n.ok THEN [kind |-> "raise", num |-> 0, trans |-> <<>>]
     ELSE [kind |-> "entry", num |-> n.n - 1,
           trans |-> StripSet(Strip(parts[2]), QuoteChars)]

\* lines the generation API may answer with
\* 1. Sa
TrLineOne == <<"1", ".", " ", "S", "a">>

\* 2. "Du"
TrLineTwo == <<"2", ".", " ", "\"", "D", "u", "\"">>

\* 1. Bo
TrLineAgain == <<"1", ".", " ", "B", "o">>

\* 2x. Du
TrLineNotNumber == <<"2", "x", ".", " ", "D", "u">>

\* 9. Du
TrLineBeyond == <<"9", ".", " ", "D", "u">>

\* Here:
TrLineProse == <<"H", "e", "r", "e", ":">>

\* the response texts of the model: the empty text, complete and incomplete
\* answers in and out of order, answers with an unusable line before or
\* after a usable one, an answer that names a title twice
Translations ==
  { <<>>,
    TrLineOne,
    Join(<<TrLineOne, TrLineTwo>>, "\n"),
    Join(<<TrLineTwo, TrLineOne>>, "\n"),
    Join(<<TrLineOne, TrLineNotNumber>>, "\n"),
    Join(<<TrLineOne, TrLineBeyond>>, "\n"),
    Join(<<TrLineProse, TrLineTwo>>, "\n"),
    Join(<<TrLineOne, TrLineAgain>>, "\n") }

\* result.split("\n") and TranslateLine on the texts and lines of the model,
\* each computed once
LinesOfTranslation == [text \in Translations |-> ResponseLines(text)] @@ <<>>

TranslationLinesSeen ==
  UNION {{LinesOfTranslation[t][i] : i \in 1..Len(LinesOfTranslation[t])} : t \in Translations}

TranslateTable == [line \in TranslationLinesSeen |-> TranslateLine(line)] @@ <<>>

TranslatedLine(line) == TranslateTable[line]

NoTranslations == [raised |-> FALSE, order |-> <<>>, map |-> <<>>]

\* translations[num] = trans when 0 <= num < len(uncached_titles); `order`
\* is the order of the keys of the dict
AddTranslation(parsed, n, acc) ==
  IF ~InRange(parsed.num, n) THEN acc
  ELSE [acc EXCEPT !.order = IF parsed.num \in DOMAIN acc.map THEN @
                             ELSE Append(@, parsed.num),
                   !.map = (parsed.num :> parsed.trans) @@ @]

\* the loop of lines 61-69 over the lines of the response; a ValueError
\* leaves the loop and the try block
RECURSIVE ParseTranslations(_, _, _)
ParseTranslations(lines, n, acc) ==
  IF lines = <<>> THEN acc
  ELSE IF TranslatedLine(Head(lines)).kind = "raise" THEN [acc EXCEPT !.raised = TRUE]
  ELSE IF TranslatedLine(Head(lines)).kind = "skip" THEN ParseTranslations(Tail(lines), n, acc)
  ELSE ParseTranslations(Tail(lines), n, AddTranslation(TranslatedLine(Head(lines)), n, acc))

\* the loop of lines 72-79: each translation is written to the cache file of
\* its title and put into `cached`
RECURSIVE CacheTranslations(_, _, _, _, _, _)
CacheTranslations(order, map, prompt, titles, uncached, acc) ==
  IF order = <<>> THEN acc
  ELSE LET orig == uncached[Head(order) + 1]
           trans == map[Head(order)]
       IN CacheTranslations(Tail(order), map, prompt, titles, uncached,
            [files |-> (TranslationCacheKey(prompt, titles[orig]) :> trans) @@ acc.files,
             cached |-> (orig :> trans) @@ acc.cached])

\* the titles of the channel's stories and the prompts of config.py (a
\* channel that is not translated has none)
TitlePool == { <<"H", "i">>, <<"Y", "o">> }

TitleLists == UNION {[1..n -> TitlePool] : n \in 0..MaxBatch}

Prompts == { <<>>, <<"T", "r">> }

\* the cache directory starts empty; every call of a behaviour gets the same
\* prompt and titles
InitTranslate ==
  /\ SelIdle
  /\ ThIdle
  /\ PrIdle
  /\ CgIdle
  /\ FsIdle
  /\ FaIdle
  /\ FmIdle
  /\ GdIdle
  /\ PlIdle
  /\ CsIdle
  /\ FrIdle
  /\ RnIdle
  /\ trPrompt \in Prompts
  /\ trTitles \in TitleLists
  /\ trCall = 0
  /\ trPc = "idle"
  /\ trAttempt = 0
  /\ trCached = <<>>
  /\ trUncached = <<>>
  /\ trReqs = <<>>
  /\ trSleeps = <<>>
  /\ trLines = <<>>
  /\ trTranslations = <<>>
  /\ trEnd = ""
  /\ trRet = <<>>
  /\ trFiles = <<>>

\* `cached` and `uncached_idx` of a call that starts now
TranslationCacheNow ==
  CheckTranslationCache(trPrompt, trTitles, 1, trFiles, [cached |-> <<>>, uncached |-> <<>>])

\* what every call does first
BeginTranslate ==
  /\ trPc \in {"idle", "done"}
  /\ trCall < MaxCalls
  /\ trCall' = trCall + 1
  /\ trAttempt' = 0
  /\ trReqs' = <<>>
  /\ trSleeps' = <<>>
  /\ trLines' = <<>>
  /\ trTranslations' = <<>>
  /\ UNCHANGED <<trOthers, trPrompt, trTitles, trFiles>>

\* `if not prompt_base or not titles: return titles`
TranslateCallNothing ==
  /\ BeginTranslate
  /\ trPrompt = <<>> \/ trTitles = <<>>
  /\ trCached' = <<>>
  /\ trUncached' = <<>>
  /\ trRet' = trTitles
  /\ trEnd' = "nothing"
  /\ trPc' = "done"

\* `if not uncached_idx: return [cached.get(i, titles[i]) ...]`
TranslateCallAllCached ==
  /\ BeginTranslate
  /\ trPrompt # <<>> /\ trTitles # <<>>
  /\ TranslationCacheNow.uncached = <<>>
  /\ trCached' = TranslationCacheNow.cached
  /\ trUncached' = <<>>
  /\ trRet' = TranslatedTitles(trTitles, TranslationCacheNow.cached)
  /\ trEnd' = "cached"
  /\ trPc' = "done"

\* some title has no cache file: the prompt is built, the loop entered
TranslateCallMiss ==
  /\ BeginTranslate
  /\ trPrompt # <<>> /\ trTitles # <<>>
  /\ TranslationCacheNow.uncached # <<>>
  /\ trCached' = TranslationCacheNow.cached
  /\ trUncached' = TranslationCacheNow.uncached
  /\ trRet' = <<>>
  /\ trEnd' = ""
  /\ trPc' = "request"

\* the request of this attempt (the uncached titles numbered from 1) and how
\* it ended
TranslateRequest(status, code) ==
  [prompt |-> [i \in 1..Len(trUncached) |-> [n |-> i, title |-> trTitles[trUncached[i]]]],
   attempt |-> trAttempt, status |-> status, code |-> code]

\* the response arrives, every line of it parses or is skipped, the
\* translations are cached: break, return the list
TranslateResponse ==
  /\ trPc = "request"
  /\ \E text \in Translations :
       LET parsed == ParseTranslations(LinesOfTranslation[text], Len(trUncached),
                                       NoTranslations)
           out == CacheTranslations(parsed.order, parsed.map, trPrompt, trTitles,
                                    trUncached, [files |-> trFiles, cached |-> trCached])
       IN /\ ~parsed.raised
          /\ trLines' = LinesOfTranslation[text]
          /\ trTranslations' = parsed.map
          /\ trFiles' = out.files
          /\ trCached' = out.cached
          /\ trRet' = TranslatedTitles(trTitles, out.cached)
  /\ trReqs' = Append(trReqs, TranslateRequest("ok", 200))
  /\ trEnd' = "ok"
  /\ trPc' = "done"
  /\ UNCHANGED <<trOthers, trPrompt, trTitles, trCall,
                 trAttempt, trUncached, trSleeps>>

\* the response arrives and int() raises ValueError on one of its lines:
\* `except Exception`, break; the translations parsed so far are dropped
\* with the try block, nothing is cached
TranslateParseRaises ==
  /\ trPc = "request"
  /\ \E text \in Translations :
       LET parsed == ParseTranslations(LinesOfTranslation[text], Len(trUncached),
                                       NoTranslations)
       IN /\ parsed.raised
          /\ trLines' = LinesOfTranslation[text]
          /\ trTranslations' = parsed.map
  /\ trReqs' = Append(trReqs, TranslateRequest("ok", 200))
  /\ trRet' = TranslatedTitles(trTitles, trCached)
  /\ trEnd' = "failed"
  /\ trPc' = "done"
  /\ UNCHANGED <<trOthers, trPrompt, trTitles, trCall,
                 trAttempt, trCached, trUncached, trSleeps, trFiles>>

\* the response arrives and parses, the first j-1 translations are cached,
\* then write_text of the j-th raises: `except Exception`, break.  Either
\* open() raised and the file is as it was, or open() emptied the file and
\* the write raised, which leaves a part of the translation in it; line 79
\* is not reached for it, so `cached` holds the translations before it.
TranslateWriteFails ==
  /\ trPc = "request"
  /\ \E text \in Translations :
       LET parsed == ParseTranslations(LinesOfTranslation[text], Len(trUncached),
                                       NoTranslations)
       IN /\ ~parsed.raised
          /\ \E j \in 1..Len(parsed.order) :
               LET out == CacheTranslations(SubSeq(parsed.order, 1, j - 1), parsed.map,
                                            trPrompt, trTitles, trUncached,
                                            [files |-> trFiles, cached |-> trCached])
                   key == TranslationCacheKey(trPrompt,
                                              trTitles[trUncached[parsed.order[j] + 1]])
               IN /\ \/ trFiles' = out.files
                     \/ \E part \in PartialWrites(parsed.map[parsed.order[j]]) :
                          trFiles' = (key :> part) @@ out.files
                  /\ trCached' = out.cached
                  /\ trRet' = TranslatedTitles(trTitles, out.cached)
          /\ trLines' = LinesOfTranslation[text]
          /\ trTranslations' = parsed.map
  /\ trReqs' = Append(trReqs, TranslateRequest("ok", 200))
  /\ trEnd' = "write_failed"
  /\ trPc' = "done"
  /\ UNCHANGED <<trOthers, trPrompt, trTitles, trCall,
                 trAttempt, trUncached, trSleeps>>

\* HTTPStatusError with status 429: sleep, then the next attempt; after the
\* last attempt the loop ends
TranslateRateLimited ==
  /\ trPc = "request"
  /\ trReqs' = Append(trReqs, TranslateRequest("http_error", RateLimited))
  /\ trSleeps' = Append(trSleeps, Backoff(trAttempt))
  /\ trAttempt' = trAttempt + 1
  /\ IF trAttempt + 1 >= MaxAttempts
       THEN /\ trRet' = TranslatedTitles(trTitles, trCached)
            /\ trEnd' = "failed"
            /\ trPc' = "done"
       ELSE UNCHANGED <<trRet, trEnd, trPc>>
  /\ UNCHANGED <<trOthers, trPrompt, trTitles, trCall,
                 trCached, trUncached, trLines, trTranslations, trFiles>>

\* HTTPStatusError with another status, or any other exception of the
\* request: break
TranslateRequestFails ==
  /\ trPc = "request"
  /\ \/ \E code \in ErrorStatuses \ {RateLimited} :
          trReqs' = Append(trReqs, TranslateRequest("http_error", code))
     \/ trReqs' = Append(trReqs, TranslateRequest("exception", 0))
  /\ trRet' = TranslatedTitles(trTitles, trCached)
  /\ trEnd' = "failed"
  /\ trPc' = "done"
  /\ UNCHANGED <<trOthers, trPrompt, trTitles, trCall,
                 trAttempt, trCached, trUncached, trSleeps, trLines, trTranslations,
                 trFiles>>

NextTranslate ==
  \/ TranslateCallNothing
  \/ TranslateCallAllCached
  \/ TranslateCallMiss
  \/ TranslateResponse
  \/ TranslateParseRaises
  \/ TranslateWriteFails
  \/ TranslateRateLimited
  \/ TranslateRequestFails

SpecTranslate == InitTranslate /\ [][NextTranslate]_vars

\* the three functions that number the stories of a prompt and read the
\* numbers back from the lines of the response: a behaviour is the calls of
\* one of them
InitEnrich ==
  \/ InitProcess
  \/ InitCategorize
  \/ InitTranslate

NextEnrich ==
  \/ NextProcess
  \/ NextCategorize
  \/ NextTranslate

SpecEnrich == InitEnrich /\ [][NextEnrich]_vars

(***************************************************************************)
(* fetch_stories (src/hndigest/hn.py).                                     *)
(***************************************************************************)
\* range(5): the pages of one call
FetchPages == 5

\* a hit of the search API; points is <<>> where the API sends null
Hit(objectID, points) ==
  [objectID |-> objectID, title |-> <<"T">> \o objectID, url |-> <<>>,
   points |-> points, num_comments |-> <<>>]

\* h.get(key, 0) or 0
OrZero(field) == IF field = <<>> THEN 0 ELSE field[1]

\* one element of _parse_hits(hits)
ParseHit(h) ==
  [id |-> ToInt(h.objectID).n, title |-> h.title, url |-> h.url,
   points |-> OrZero(h.points), comments |-> OrZero(h.num_comments)]

\* _parse_hits(hits)
ParseHits(hits) == [i \in 1..Len(hits) |-> ParseHit(hits[i])]

\* int(h["objectID"]) raises for one of the hits
HitsRaise(hits) == \E i \in 1..Len(hits) : ~ToInt(hits[i].objectID).ok

\* the first digit of the object ids of a page
PageDigit(page) == <<"1", "2", "3", "4", "5">>[page + 1]

\* the hit lists the API may answer page `page` with: one hit, or two with
\* a null among the points; the object ids tell the pages apart
PageHits(page) ==
  { << Hit(<<PageDigit(page), "1">>, <<7>>) >>,
    << Hit(<<PageDigit(page), "1">>, <<7>>), Hit(<<PageDigit(page), "2">>, <<>>) >> }

\* a page whose second hit has an object id that is no number
BadPageHits(page) ==
  << Hit(<<PageDigit(page), "1">>, <<7>>), Hit(<<"x">>, <<7>>) >>

InitFetch ==
  /\ SelIdle
  /\ ThIdle
  /\ PrIdle
  /\ CgIdle
  /\ TrIdle
  /\ FaIdle
  /\ FmIdle
  /\ GdIdle
  /\ PlIdle
  /\ CsIdle
  /\ FrIdle
  /\ RnIdle
  /\ fsPc = "loop"
  /\ fsPage = 0
  /\ fsStories = <<>>
  /\ fsLog = <<>>
  /\ fsRet = <<>>

\* the request for the page of this pass and what came back
PageRequest(kind, hits) == [page |-> fsPage, kind |-> kind, hits |-> hits]

\* one pass of the loop: the page has hits, they are parsed and added;
\* after the last page the list is returned
FetchPageHits ==
  /\ fsPc = "loop"
  /\ \E hits \in PageHits(fsPage) :
       /\ fsLog' = Append(fsLog, PageRequest("hits", hits))
       /\ fsStories' = fsStories \o ParseHits(hits)
       /\ IF fsPage + 1 >= FetchPages
            THEN fsPc' = "done" /\ fsRet' = fsStories \o ParseHits(hits)
            ELSE fsPc' = "loop" /\ fsRet' = fsRet
  /\ fsPage' = fsPage + 1
  /\ UNCHANGED fsOthers

\* `if not hits: break`, return stories
FetchPageEmpty ==
  /\ fsPc = "loop"
  /\ fsLog' = Append(fsLog, PageRequest("empty", <<>>))
  /\ fsRet' = fsStories
  /\ fsPc' = "done"
  /\ UNCHANGED <<fsOthers, fsPage, fsStories>>

\* a pass that gives up the stories of the earlier pages
FetchPageFails_DropsStories ==
  /\ fsPc = "loop"
  /\ \/ fsLog' = Append(fsLog, PageRequest("failed", <<>>))
     \/ fsLog' = Append(fsLog, PageRequest("failed", BadPageHits(fsPage)))
  /\ fsStories' = <<>>
  /\ fsRet' = <<>>
  /\ fsPc' = "done"
  /\ UNCHANGED <<fsOthers, fsPage>>

\* the request raises (timeout, connection error, HTTP status, a body that
\* is not the expected JSON), or _parse_hits raises on a hit of the page:
\* `except Exception`, break, return stories
FetchPageFails ==
  /\ fsPc = "loop"
  /\ \/ fsLog' = Append(fsLog, PageRequest("failed", <<>>))
     \/ /\ HitsRaise(BadPageHits(fsPage))
        /\ fsLog' = Append(fsLog, PageRequest("failed", BadPageHits(fsPage)))
  /\ fsRet' = fsStories
  /\ fsPc' = "done"
  /\ UNCHANGED <<fsOthers, fsPage, fsStories>>

NextFetch ==
  \/ FetchPageHits
  \/ FetchPageEmpty
  \/ FetchPageFails

SpecFetch == InitFetch /\ [][NextFetch]_vars

(***************************************************************************)
(* fetch_articles and _fetch_one (src/hn_digest/content.py).  One task of  *)
(* the pool runs _fetch_one for every story with a URL; the tasks and the  *)
(* as_completed loop of the caller interleave step by step.  The texts of  *)
(* the model are shorter than MAX_WORDS: _truncate_words returns them.     *)
(***************************************************************************)
ArticleUrlOne == <<"u", "1">>

ArticleUrlTwo == <<"u", "2">>

\* story.get("url", ""): no URL, or one of two URLs
ArticleUrls == {<<>>, ArticleUrlOne, ArticleUrlTwo}

\* the batches: stories with the ids 1..n, any of them with the same URL
ArticleBatches ==
  UNION {{[i \in 1..n |-> [id |-> i, url |-> q[i]]] : q \in [1..n -> ArticleUrls]}
         : n \in 0..MaxBatch}

\* what trafilatura extracts from the page of the URL
ArticleText(url) == <<"a", "r", "t">> \o url

\* _cache_path(url): md5 is taken injective
ContentCachePath(url) == <<"md5">> \o url

\* the content cache an earlier run left: nothing, the text of the first
\* URL, or the empty text of a fetch of it that failed
ContentCaches ==
  { <<>>,
    (ContentCachePath(ArticleUrlOne) :> ArticleText(ArticleUrlOne)),
    (ContentCachePath(ArticleUrlOne) :> <<>>) }

\* the stories with a URL (url_stories), by their position in the batch
UrlStories(stories) == {i \in 1..Len(stories) : stories[i].url # <<>>}

\* lines 63-68: results[story["id"]] = "" for every story without URL
UrllessResults(stories) ==
  [id \in {stories[i].id : i \in (1..Len(stories)) \ UrlStories(stories)} |-> <<>>]

\* a task: where _fetch_one stands, its `text`, whether the request failed,
\* whether the task raised, what it returned
NewTask == [pc |-> "check", text |-> <<>>, failed |-> FALSE, raised |-> FALSE,
            result |-> <<>>]

InitArticles ==
  /\ SelIdle
  /\ ThIdle
  /\ PrIdle
  /\ CgIdle
  /\ TrIdle
  /\ FsIdle
  /\ FmIdle
  /\ GdIdle
  /\ PlIdle
  /\ CsIdle
  /\ FrIdle
  /\ RnIdle
  /\ faStories \in ArticleBatches
  /\ faPc = "start"
  /\ faResults = <<>>
  /\ faTasks = <<>>
  /\ faFiles \in ContentCaches
  /\ faAtStart = faFiles
  /\ faWrites = <<>>
  /\ faOrder = <<>>
  /\ faRet = <<>>

\* `if not url_stories: return results`
ArticlesNoUrls ==
  /\ faPc = "start"
  /\ UrlStories(faStories) = {}
  /\ faResults' = UrllessResults(faStories)
  /\ faRet' = UrllessResults(faStories)
  /\ faPc' = "done"
  /\ UNCHANGED <<faOthers, faStories, faTasks, faFiles, faAtStart, faWrites, faOrder>>

\* pool.submit(_fetch_one, session, s["url"]) for every story with a URL
ArticlesSubmit ==
  /\ faPc = "start"
  /\ UrlStories(faStories) # {}
  /\ faResults' = UrllessResults(faStories)
  /\ faTasks' = [i \in UrlStories(faStories) |-> NewTask]
  /\ faPc' = "pool"
  /\ UNCHANGED <<faOthers, faStories, faFiles, faAtStart, faWrites, faOrder, faRet>>

\* the file of the task's URL
TaskPath(i) == ContentCachePath(faStories[i].url)

\* a task is at the step pc
TaskAt(i, pc) == faPc = "pool" /\ i \in DOMAIN faTasks /\ faTasks[i].pc = pc

\* `if cache_file.exists():` is true
FetchOneCached(i) ==
  /\ TaskAt(i, "check")
  /\ TaskPath(i) \in DOMAIN faFiles
  /\ faTasks' = [faTasks EXCEPT ![i].pc = "read"]
  /\ UNCHANGED <<faOthers, faStories, faPc, faResults, faFiles, faAtStart, faWrites,
                 faOrder, faRet>>

\* `return cache_file.read_text()`: the text the file holds at this moment,
\* which is not the moment of exists() when other tasks ran in between
FetchOneRead(i) ==
  /\ TaskAt(i, "read")
  /\ faTasks' = [faTasks EXCEPT ![i].pc = "done",
                                ![i].result = ReadText(faFiles[TaskPath(i)])]
  /\ UNCHANGED <<faOthers, faStories, faPc, faResults, faFiles, faAtStart, faWrites,
                 faOrder, faRet>>

\* cache_file.exists() is false
FetchOneMiss(i) ==
  /\ TaskAt(i, "check")
  /\ TaskPath(i) \notin DOMAIN faFiles
  /\ faTasks' = [faTasks EXCEPT ![i].pc = "get"]
  /\ UNCHANGED <<faOthers, faStories, faPc, faResults, faFiles, faAtStart, faWrites,
                 faOrder, faRet>>

\* lines 36-44: the page is fetched and its text extracted, or the request
\* fails (or nothing is extracted) and text stays ""
FetchOneGet(i) ==
  /\ TaskAt(i, "get")
  /\ \E ok \in BOOLEAN :
       faTasks' = [faTasks EXCEPT ![i].pc = "write",
                                  ![i].failed = ~ok,
                                  ![i].text = IF ok THEN ArticleText(faStories[i].url)
                                              ELSE <<>>]
  /\ UNCHANGED <<faOthers, faStories, faPc, faResults, faFiles, faAtStart, faWrites,
                 faOrder, faRet>>

\* cache_file.write_text(text) opens the file for writing: it exists from
\* now on and is empty until the text is written
BeginWrite(files, path) == (path :> <<>>) @@ files

FetchOneOpen(i) ==
  /\ TaskAt(i, "write")
  /\ faFiles' = BeginWrite(faFiles, TaskPath(i))
  /\ faWrites' = Append(faWrites, [path |-> TaskPath(i), task |-> i])
  /\ faTasks' = [faTasks EXCEPT ![i].pc = "fill"]
  /\ UNCHANGED <<faOthers, faStories, faPc, faResults, faAtStart, faOrder, faRet>>

\* the file after `text` was written to it from its start: a task writes at
\* its own offset 0, over what another task has written since the file was
\* emptied
WriteAtStart(current, text) == text \o SubSeq(current, Len(text) + 1, Len(current))

\* write_text raises and the task ends with the exception: open() raised
\* (the directory is read-only) and the file is as it was, or the file was
\* opened and the write raised (the disk is full), which leaves a part of
\* the text, possibly none of it, in the file
FetchOneWriteRaises(i) ==
  /\ \/ /\ TaskAt(i, "write")
        /\ UNCHANGED faFiles
     \/ /\ TaskAt(i, "fill")
        /\ \E part \in PartialWrites(faTasks[i].text) :
             faFiles' = (TaskPath(i) :> WriteAtStart(faFiles[TaskPath(i)], part)) @@ faFiles
  /\ faTasks' = [faTasks EXCEPT ![i].pc = "done", ![i].raised = TRUE]
  /\ UNCHANGED <<faOthers, faStories, faPc, faResults, faAtStart, faWrites,
                 faOrder, faRet>>

\* the text is written and the file closed: return text
FetchOneFill(i) ==
  /\ TaskAt(i, "fill")
  /\ faFiles' = (TaskPath(i) :> WriteAtStart(faFiles[TaskPath(i)], faTasks[i].text))
                  @@ faFiles
  /\ faTasks' = [faTasks EXCEPT ![i].pc = "done", ![i].result = faTasks[i].text]
  /\ UNCHANGED <<faOthers, faStories, faPc, faResults, faAtStart, faWrites, faOrder,
                 faRet>>

\* the tasks as_completed has yielded
Collected == {faOrder[k] : k \in 1..Len(faOrder)}

\* one pass of the as_completed loop: results[story["id"]] = future.result(),
\* or "" when the task raised; after the last task the map is returned
Collect(i) ==
  /\ TaskAt(i, "done")
  /\ i \notin Collected
  /\ faOrder' = Append(faOrder, i)
  /\ faResults' = (faStories[i].id :> IF faTasks[i].raised THEN <<>>
                                      ELSE faTasks[i].result) @@ faResults
  /\ IF Collected \cup {i} = DOMAIN faTasks
       THEN faPc' = "done" /\ faRet' = faResults'
       ELSE faPc' = "pool" /\ faRet' = faRet
  /\ UNCHANGED <<faOthers, faStories, faTasks, faFiles, faAtStart, faWrites>>

FetchOneChecks ==
  \E i \in 1..MaxBatch : FetchOneCached(i) \/ FetchOneRead(i) \/ FetchOneMiss(i)

FetchOneRequests == \E i \in 1..MaxBatch : FetchOneGet(i)

FetchOneWrites ==
  \E i \in 1..MaxBatch : FetchOneOpen(i) \/ FetchOneWriteRaises(i) \/ FetchOneFill(i)

Collects == \E i \in 1..MaxBatch : Collect(i)

NextArticles ==
  \/ ArticlesNoUrls
  \/ ArticlesSubmit
  \/ FetchOneChecks
  \/ FetchOneRequests
  \/ FetchOneWrites
  \/ Collects

SpecArticles == InitArticles /\ [][NextArticles]_vars

(***************************************************************************)
(* categorize_story (src/hn_digest/config.py).                             *)
(***************************************************************************)
\* CATEGORIES: per category, in table order, the title keywords and the domains
CATEGORIES ==
  << [key |-> <<"a", "i">>,
     keywords |->
       << <<"a", "i">>,
          <<"g", "p", "t">>,
          <<"l", "l", "m">>,
          <<"c", "h", "a", "t", "g", "p", "t">>,
          <<"o", "p", "e", "n", "a", "i">>,
          <<"a", "n", "t", "h", "r", "o", "p", "i", "c">>,
          <<"g", "e", "m", "i", "n", "i">>,
          <<"c", "l", "a", "u", "d", "e">>,
          <<"m", "a", "c", "h", "i", "n", "e", " ", "l", "e", "a", "r", "n",
            "i", "n", "g">>,
          <<"n", "e", "u", "r", "a", "l">>,
          <<"t", "r", "a", "n", "s", "f", "o", "r", "m", "e", "r">>,
          <<"d", "i", "f", "f", "u", "s", "i", "o", "n">>,
          <<"d", "e", "e", "p", "m", "i", "n", "d">>,
          <<"c", "o", "p", "i", "l", "o", "t">>,
          <<"m", "i", "d", "j", "o", "u", "r", "n", "e", "y">>,
          <<"s", "t", "a", "b", "l", "e", " ", "d", "i", "f", "f", "u", "s",
            "i", "o", "n">>,
          <<"m", "i", "s", "t", "r", "a", "l">>,
          <<"l", "l", "a", "m", "a">>,
          <<"w", "a", "y", "m", "o">>,
          <<"s", "e", "l", "f", "-", "d", "r", "i", "v", "i", "n", "g">>,
          <<"a", "u", "t", "o", "n", "o", "m", "o", "u", "s">>,
          <<"m", "o", "d", "e", "l">> >>,
     domains |->
       << <<"o", "p", "e", "n", "a", "i", ".", "c", "o", "m">>,
          <<"a", "n", "t", "h", "r", "o", "p", "i", "c", ".", "c", "o",
            "m">>,
          <<"d", "e", "e", "p", "m", "i", "n", "d", ".", "c", "o", "m">>,
          <<"h", "u", "g", "g", "i", "n", "g", "f", "a", "c", "e", ".", "c",
            "o">> >>],
     [key |-> <<"c", "o", "d", "e">>,
     keywords |->
       << <<"r", "u", "s", "t">>,
          <<"p", "y", "t", "h", "o", "n">>,
          <<"j", "a", "v", "a", "s", "c", "r", "i", "p", "t">>,
          <<"t", "y", "p", "e", "s", "c", "r", "i", "p", "t">>,
          <<"g", "o", "l", "a", "n", "g">>,
          <<"c", "o", "m", "p", "i", "l", "e", "r">>,
          <<"p", "r", "o", "g", "r", "a", "m", "m", "i", "n", "g">>,
          <<"g", "i", "t">>,
          <<"l", "i", "n", "u", "x">>,
          <<"k", "e", "r", "n", "e", "l">>,
          <<"a", "p", "i">>,
          <<"o", "p", "e", "n", " ", "s", "o", "u", "r", "c", "e">>,
          <<"d", "o", "c", "k", "e", "r">>,
          <<"k", "u", "b", "e", "r", "n", "e", "t", "e", "s">>,
          <<"d", "e", "v", "o", "p", "s">>,
          <<"n", "g", "i", "n", "x">>,
          <<"v", "i", "m">>,
          <<"e", "m", "a", "c", "s">>,
          <<"n", "e", "o", "v", "i", "m">>,
          <<"t", "e", "r", "m", "i", "n", "a", "l">>,
          <<"c", "l", "i">> >>,
     domains |->
       << <<"g", "i", "t", "h", "u", "b", ".", "c", "o", "m">>,
          <<"g", "i", "t", "l", "a", "b", ".", "c", "o", "m">>,
          <<"d", "e", "v", ".", "t", "o">>,
          <<"s", "o", "u", "r", "c", "e", "w", "a", "r", "e", ".", "o", "r",
            "g">> >>],
     [key |-> <<"d", "a", "t", "a">>,
     keywords |->
       << <<"d", "a", "t", "a", "b", "a", "s", "e">>,
          <<"s", "q", "l">>,
          <<"p", "o", "s", "t", "g", "r", "e", "s">>,
          <<"r", "e", "d", "i", "s">>,
          <<"d", "a", "t", "a">>,
          <<"a", "n", "a", "l", "y", "t", "i", "c", "s">>,
          <<"b", "i", "g", "q", "u", "e", "r", "y">>,
          <<"e", "l", "a", "s", "t", "i", "c", "s", "e", "a", "r", "c",
            "h">>,
          <<"m", "o", "n", "g", "o", "d", "b">>,
          <<"s", "q", "l", "i", "t", "e">>,
          <<"c", "a", "s", "s", "a", "n", "d", "r", "a">> >>,
     domains |->
       << <<"p", "o", "s", "t", "g", "r", "e", "s", "q", "l", ".", "o", "r",
            "g">> >>],
     [key |-> <<"s", "c", "i", "e", "n", "c", "e">>,
     keywords |->
       << <<"r", "e", "s", "e", "a", "r", "c", "h">>,
          <<"p", "a", "p", "e", "r">>,
          <<"s", "t", "u", "d", "y">>,
          <<"p", "h", "y", "s", "i", "c", "s">>,
          <<"b", "i", "o", "l", "o", "g", "y">>,
          <<"c", "h", "e", "m", "i", "s", "t", "r", "y">>,
          <<"m", "a", "t", "h">>,
          <<"s", "p", "a", "c", "e">>,
          <<"n", "a", "s", "a">>,
          <<"t", "e", "l", "e", "s", "c", "o", "p", "e">>,
          <<"q", "u", "a", "n", "t", "u", "m">>,
          <<"g", "e", "n", "o", "m", "e">>,
          <<"c", "l", "i", "m", "a", "t", "e">>,
          <<"n", "e", "u", "r", "o", "s", "c", "i", "e", "n", "c", "e">>,
          <<"a", "r", "x", "i", "v">>,
          <<"p", "e", "e", "r", " ", "r", "e", "v", "i", "e", "w">>,
          <<"e", "x", "p", "e", "r", "i", "m", "e", "n", "t">> >>,
     domains |->
       << <<"a", "r", "x", "i", "v", ".", "o", "r", "g">>,
          <<"n", "a", "t", "u", "r", "e", ".", "c", "o", "m">>,
          <<"s", "c", "i", "e", "n", "c", "e", ".", "o", "r", "g">>,
          <<"n", "a", "s", "a", ".", "g", "o", "v">> >>],
     [key |-> <<"s", "e", "c", "u", "r", "i", "t", "y">>,
     keywords |->
       << <<"s", "e", "c", "u", "r", "i", "t", "y">>,
          <<"v", "u", "l", "n", "e", "r", "a", "b", "i", "l", "i", "t",
            "y">>,
          <<"b", "r", "e", "a", "c", "h">>,
          <<"m", "a", "l", "w", "a", "r", "e">>,
          <<"r", "a", "n", "s", "o", "m", "w", "a", "r", "e">>,
          <<"e", "x", "p", "l", "o", "i", "t">>,
          <<"z", "e", "r", "o", "-", "d", "a", "y">>,
          <<"p", "r", "i", "v", "a", "c", "y">>,
          <<"e", "n", "c", "r", "y", "p", "t", "i", "o", "n">>,
          <<"b", "a", "c", "k", "d", "o", "o", "r">>,
          <<"h", "i", "j", "a", "c", "k">>,
          <<"c", "v", "e">>,
          <<"p", "h", "i", "s", "h", "i", "n", "g">>,
          <<"i", "n", "f", "o", "s", "e", "c">> >>,
     domains |->
       << <<"k", "r", "e", "b", "s", "o", "n", "s", "e", "c", "u", "r", "i",
            "t", "y", ".", "c", "o", "m">>,
          <<"s", "c", "h", "n", "e", "i", "e", "r", ".", "c", "o", "m">> >>],
     [key |-> <<"d", "e", "s", "i", "g", "n">>,
     keywords |->
       << <<"t", "y", "p", "o", "g", "r", "a", "p", "h", "y">>,
          <<"t", "y", "p", "e", "f", "a", "c", "e">>,
          <<"f", "o", "n", "t">>,
          <<"u", "i", " ", "d", "e", "s", "i", "g", "n">>,
          <<"u", "x", " ", "d", "e", "s", "i", "g", "n">>,
          <<"c", "s", "s">>,
          <<"a", "n", "i", "m", "a", "t", "i", "o", "n">>,
          <<"s", "v", "g">>,
          <<"c", "o", "l", "o", "r", " ", "p", "a", "l", "e", "t", "t",
            "e">>,
          <<"f", "i", "g", "m", "a">>,
          <<"a", "c", "c", "e", "s", "s", "i", "b", "i", "l", "i", "t",
            "y">> >>,
     domains |->
       << <<"f", "i", "g", "m", "a", ".", "c", "o", "m">>,
          <<"d", "r", "i", "b", "b", "b", "l", "e", ".", "c", "o", "m">> >>],
     [key |-> <<"b", "u", "s", "i", "n", "e", "s", "s">>,
     keywords |->
       << <<"s", "t", "a", "r", "t", "u", "p">>,
          <<"f", "o", "u", "n", "d", "e", "r">>,
          <<"y", "c">>,
          <<"y", "c", "o", "m", "b", "i", "n", "a", "t", "o", "r">>,
          <<"f", "u", "n", "d", "i", "n", "g">>,
          <<"s", "e", "r", "i", "e", "s", " ", "a">>,
          <<"a", "c", "q", "u", "i", "s", "i", "t", "i", "o", "n">>,
          <<"i", "p", "o">>,
          <<"v", "a", "l", "u", "a", "t", "i", "o", "n">>,
          <<"l", "a", "y", "o", "f", "f">>,
          <<"r", "e", "g", "u", "l", "a", "t", "i", "o", "n">>,
          <<"l", "a", "w">>,
          <<"b", "a", "n">>,
          <<"g", "o", "v", "e", "r", "n", "m", "e", "n", "t">>,
          <<"c", "o", "n", "g", "r", "e", "s", "s">>,
          <<"c", "o", "u", "r", "t">>,
          <<"l", "a", "w", "s", "u", "i", "t">>,
          <<"a", "n", "t", "i", "t", "r", "u", "s", "t">>,
          <<"p", "o", "l", "i", "c", "y">>,
          <<"l", "e", "g", "a", "l">>,
          <<"f", "c", "c">>,
          <<"f", "t", "c">>,
          <<"f", "i", "r", "m">>,
          <<"c", "l", "o", "u", "d">>,
          <<"e", "u", "-", "n", "a", "t", "i", "v", "e">>,
          <<"d", "i", "g", "i", "t", "a", "l", " ", "a", "u", "t", "o", "n",
            "o", "m", "y">>,
          <<"b", "i", "g", " ", "t", "e", "c", "h">> >>,
     domains |->
       << <<"t", "e", "c", "h", "c", "r", "u", "n", "c", "h", ".", "c", "o",
            "m">>,
          <<"y", "c", "o", "m", "b", "i", "n", "a", "t", "o", "r", ".", "c",
            "o", "m">>,
          <<"t", "h", "e", "r", "e", "g", "i", "s", "t", "e", "r", ".", "c",
            "o", "m">> >>],
     [key |-> <<"w", "o", "r", "k">>,
     keywords |->
       << <<"r", "e", "m", "o", "t", "e", " ", "w", "o", "r", "k">>,
          <<"c", "a", "r", "e", "e", "r">>,
          <<"h", "i", "r", "i", "n", "g", " ", "c", "u", "l", "t", "u", "r",
            "e">>,
          <<"m", "a", "n", "a", "g", "e", "m", "e", "n", "t">>,
          <<"i", "n", "t", "e", "r", "v", "i", "e", "w">>,
          <<"w", "o", "r", "k", "p", "l", "a", "c", "e">>,
          <<"b", "u", "r", "n", "o", "u", "t">>,
          <<"s", "a", "l", "a", "r", "y">>,
          <<"f", "r", "e", "e", "l", "a", "n", "c", "e">>,
          <<"w", "o", "r", "k", "-", "l", "i", "f", "e">> >>,
     domains |->
       <<>>],
     [key |-> <<"l", "e", "a", "r", "n">>,
     keywords |->
       << <<"t", "u", "t", "o", "r", "i", "a", "l">>,
          <<"g", "u", "i", "d", "e">>,
          <<"h", "o", "w", " ", "t", "o">>,
          <<"l", "e", "a", "r", "n">>,
          <<"c", "o", "u", "r", "s", "e">>,
          <<"i", "n", "t", "r", "o", "d", "u", "c", "t", "i", "o", "n", " ",
            "t", "o">>,
          <<"b", "e", "g", "i", "n", "n", "e", "r">>,
          <<"w", "a", "l", "k", "t", "h", "r", "o", "u", "g", "h">> >>,
     domains |->
       << <<"f", "r", "e", "e", "c", "o", "d", "e", "c", "a", "m", "p", ".",
            "o", "r", "g">>,
          <<"c", "o", "u", "r", "s", "e", "r", "a", ".", "o", "r", "g">> >>],
     [key |-> <<"s", "h", "o", "w", "_", "h", "n">>,
     keywords |->
       << <<"s", "h", "o", "w", " ", "h", "n">> >>,
     domains |->
       <<>>],
     [key |-> <<"a", "s", "k", "_", "h", "n">>,
     keywords |->
       << <<"a", "s", "k", " ", "h", "n">> >>,
     domains |->
       <<>>] >>

S_show_hn == <<"s", "h", "o", "w", "_", "h", "n">>

S_ask_hn == <<"a", "s", "k", "_", "h", "n">>

\* the two categories that are looked for first (line 313)
PriorityKeys == <<S_show_hn, S_ask_hn>>

\* CATEGORIES[key]
CategoryRules(key) ==
  CATEGORIES[CHOOSE i \in 1..Len(CATEGORIES) : CATEGORIES[i].key = key]

\* any keyword of the rules is in the title (lines 314-316, 321-323)
KeywordIn(rules, title_lower) ==
  \E k \in 1..Len(rules.keywords) : Contains(title_lower, rules.keywords[k])

\* any domain of the rules is in the domain (lines 324-326)
DomainIn(rules, domain) ==
  \E k \in 1..Len(rules.domains) : Contains(domain, rules.domains[k])

\* the categories of the table whose keywords match, the domains not looked at
TableMatches_KeywordsOnly(title_lower, domain) ==
  {i \in 1..Len(CATEGORIES) :
     /\ CATEGORIES[i].key # S_show_hn
     /\ CATEGORIES[i].key # S_ask_hn
     /\ KeywordIn(CATEGORIES[i], title_lower)}

\* the categories of the table whose keywords or domains match, the two
\* priority categories left out (lines 318-326)
TableMatches(title_lower, domain) ==
  {i \in 1..Len(CATEGORIES) :
     /\ CATEGORIES[i].key # S_show_hn
     /\ CATEGORIES[i].key # S_ask_hn
     /\ \/ KeywordIn(CATEGORIES[i], title_lower)
        \/ DomainIn(CATEGORIES[i], domain)}

CategoryOfTitle(title_lower, domain) ==
  LET hits == TableMatches(title_lower, domain)
  IN IF KeywordIn(CategoryRules(S_show_hn), title_lower) THEN S_show_hn
     ELSE IF KeywordIn(CategoryRules(S_ask_hn), title_lower) THEN S_ask_hn
     ELSE IF hits # {}
       THEN CATEGORIES[CHOOSE i \in hits : \A j \in hits : i <= j].key
     ELSE S_other

categorize_story(story) == CategoryOfTitle(Lower(story.title), Lower(story.domain))

(***************************************************************************)
(* format_digest (src/hn_digest/formatter.py): the sections of the         *)
(* messages, each with its category and its stories in order.              *)
(***************************************************************************)
\* the top section shows at most this many stories
TopLimit == 10

\* a category section shows at most this many stories
SectionLimit == 5

\* the sections with "other" first
category_order_OtherFirst ==
  << S_other, <<"a", "i">>, <<"c", "o", "d", "e">>, <<"d", "a", "t", "a">>,
     <<"s", "c", "i", "e", "n", "c", "e">>,
     <<"s", "e", "c", "u", "r", "i", "t", "y">>,
     <<"d", "e", "s", "i", "g", "n">>,
     <<"b", "u", "s", "i", "n", "e", "s", "s">>,
     <<"w", "o", "r", "k">>, <<"l", "e", "a", "r", "n">>,
     S_show_hn, S_ask_hn >>

category_order ==
  << <<"a", "i">>, <<"c", "o", "d", "e">>, <<"d", "a", "t", "a">>,
     <<"s", "c", "i", "e", "n", "c", "e">>,
     <<"s", "e", "c", "u", "r", "i", "t", "y">>,
     <<"d", "e", "s", "i", "g", "n">>,
     <<"b", "u", "s", "i", "n", "e", "s", "s">>,
     <<"w", "o", "r", "k">>, <<"l", "e", "a", "r", "n">>,
     S_show_hn, S_ask_hn, S_other >>

\* the last n elements of the list
Take_FromEnd(list, n) ==
  SubSeq(list, IF Len(list) < n THEN 1 ELSE Len(list) - n + 1, Len(list))

\* list[:n]
Take(list, n) == SubSeq(list, 1, IF Len(list) < n THEN Len(list) ELSE n)

IsTop(s) == s.is_top

\* [s for s in stories if s.get("is_top")]
Flagged(stories) == SelectSeq(stories, IsTop)

\* only the flagged stories, with no fallback
TopStories_FlaggedOnly(stories) == Take(Flagged(stories), TopLimit)

\* top_stories of lines 52-55
TopStories(stories) ==
  IF Flagged(stories) = <<>> THEN Take(Take(stories, TopLimit), TopLimit)
  ELSE Take(Flagged(stories), TopLimit)

\* top_ids of line 56
TopIds(stories) == {TopStories(stories)[i].id : i \in 1..Len(TopStories(stories))}

\* s.get("category") or categorize_story(s), line 63
SectionOf(s) == IF s.category # <<>> THEN s.category ELSE categorize_story(s)

\* the stories that fall in the category, those of the top section included
RECURSIVE CategoryStories_WithTop(_, _, _)
CategoryStories_WithTop(stories, top_ids, cat_key) ==
  IF stories = <<>> THEN <<>>
  ELSE LET s == Head(stories)
           rest == CategoryStories_WithTop(Tail(stories), top_ids, cat_key)
       IN IF SectionOf(s) = cat_key THEN <<s>> \o rest ELSE rest

\* by_category.get(cat_key, []) of line 101: the stories outside the top
\* section that fall in the category, in input order (lines 59-64)
RECURSIVE CategoryStories(_, _, _)
CategoryStories(stories, top_ids, cat_key) ==
  IF stories = <<>> THEN <<>>
  ELSE LET s == Head(stories)
           rest == CategoryStories(Tail(stories), top_ids, cat_key)
       IN IF s.id \notin top_ids /\ SectionOf(s) = cat_key
            THEN <<s>> \o rest ELSE rest

\* a message: the category of its header and the stories it shows
Section(key, stories) == [key |-> key, stories |-> stories]

\* the replies of lines 100-110 for the categories from position k on
RECURSIVE CategoryReplies(_, _, _)
CategoryReplies(stories, top_ids, k) ==
  IF k > Len(category_order) THEN <<>>
  ELSE LET cat_stories == CategoryStories(stories, top_ids, category_order[k])
           rest == CategoryReplies(stories, top_ids, k + 1)
       IN IF cat_stories = <<>> THEN rest
          ELSE <<Section(category_order[k], Take(cat_stories, SectionLimit))>> \o rest

\* the main post (lines 67-82) and the category replies
format_digest(stories) ==
  <<Section(S_top, TopStories(stories))>>
    \o CategoryReplies(stories, TopIds(stories), 1)

(***************************************************************************)
(* Inputs of format_digest.                                                *)
(***************************************************************************)
\* longest story list handed to format_digest
MaxStories == 16

TitleNoKeyword ==
  <<"O", "l", "d", " ", "m", "a", "p", "s", " ", "o", "f", " ", "t", "h", "e",
    " ", "s", "k", "y">>

TitleShowHn ==
  <<"S", "h", "o", "w", " ", "H", "N", ":", " ", "M", "y", " ", "A", "I", " ",
    "t", "o", "o", "l", " ", "f", "o", "r", " ", "x">>

DomainPlain == <<"a", ".", "c", "o", "m">>

DomainGithub == <<"g", "i", "t", "h", "u", "b", ".", "c", "o", "m">>

\* how the is_top flags lie in an input: on no story, on every story, on
\* every second story, on the last story only, on three stories of four
FlagPatterns == {"none", "all", "even", "last", "most"}

\* how the categories lie in an input: one category for all, two in turn, no
\* category on any story (the classifier decides), a category that has no
\* section
CategoryPatterns == {"one", "two", "missing", "unknown"}

FlagAt(flags, i, n) ==
  CASE flags = "none" -> FALSE
    [] flags = "all" -> TRUE
    [] flags = "even" -> i % 2 = 0
    [] flags = "last" -> i = n
    [] flags = "most" -> i % 4 # 1

CategoryAt(cats, i) ==
  CASE cats = "one" -> <<"a", "i">>
    [] cats = "two" -> IF i % 2 = 0 THEN <<"a", "i">> ELSE S_other
    [] cats = "missing" -> <<>>
    [] cats = "unknown" -> S_culture

FormatStory(flags, cats, i, n) ==
  [id |-> i,
   title |-> IF i % 3 = 0 THEN TitleShowHn ELSE TitleNoKeyword,
   domain |-> IF i % 2 = 0 THEN DomainGithub ELSE DomainPlain,
   category |-> CategoryAt(cats, i),
   is_top |-> FlagAt(flags, i, n)]

FormatInputs ==
  {[i \in 1..n |-> FormatStory(flags, cats, i, n)] :
     n \in 0..MaxStories, flags \in FlagPatterns, cats \in CategoryPatterns}

InitFormat ==
  /\ SelIdle
  /\ ThIdle
  /\ PrIdle
  /\ CgIdle
  /\ TrIdle
  /\ FsIdle
  /\ FaIdle
  /\ GdIdle
  /\ PlIdle
  /\ CsIdle
  /\ FrIdle
  /\ RnIdle
  /\ fmStories \in FormatInputs
  /\ fmPc = "called"
  /\ fmRet = <<>>

\* format_digest builds the messages and returns them
FormatDigest ==
  /\ fmPc = "called"
  /\ fmRet' = format_digest(fmStories)
  /\ fmPc' = "done"
  /\ UNCHANGED <<fmOthers, fmStories>>

NextFormat == FormatDigest

SpecFormat == InitFormat /\ [][NextFormat]_vars

(***************************************************************************)
(* generate_digest (src/hn_digest/cli.py).                                 *)
(***************************************************************************)
\* Channel.limit
ChannelLimit == 50

\* the `show` and the `ask` selections are this long at most (lines 36-37)
ThreadLimit == 2

\* longest list a call of fetch_stories returns here
MaxFetched == 3

S_show_prefix == <<"s", "h", "o", "w", " ", "h", "n">>

S_ask_prefix == <<"a", "s", "k", " ", "h", "n">>

UrlGithub ==
  <<"h", "t", "t", "p", "s", ":", "/", "/", "g", "i", "t", "h", "u", "b", ".",
    "c", "o", "m", "/", "x">>

\* what fetch_stories may return for the front page
DigestPool ==
  { RawStory(1, TitleLong, UrlA1, 10, 0),
    RawStory(2, TitleNoKeyword, UrlA1, 8, 0),
    RawStory(3, TitleNoKeyword, UrlGithub, 6, 1),
    RawStory(4, TitleShowHn, UrlA3, 5, 0) }

DigestLists ==
  UNION {{q \in [1..n -> DigestPool] : \A i, j \in 1..n : i # j => q[i] # q[j]}
         : n \in 0..MaxFetched}

\* what fetch_stories may return for the tag show_hn
ShowLists ==
  { <<>>,
    << RawStory(4, TitleShowHn, UrlA3, 5, 0) >>,
    << RawStory(5, TitleShowHn, <<>>, 3, 0), RawStory(4, TitleShowHn, UrlA3, 5, 0) >>,
    << RawStory(7, TitleShowHn, UrlGithub, 1, 0), RawStory(5, TitleShowHn, <<>>, 3, 0),
       RawStory(4, TitleShowHn, UrlA3, 5, 0) >> }

\* what fetch_stories may return for the tag ask_hn
AskLists ==
  { <<>>,
    << RawStory(6, TitleShort, UrlA3, 2, 1) >> }

\* every story of `more` appended, present or not
AppendNew_All(top, more) == top \o more

\* lines 39-42: the stories of `more` whose id is not yet in the list
RECURSIVE AppendNew(_, _)
AppendNew(top, more) ==
  IF more = <<>> THEN top
  ELSE LET s == Head(more)
           existing_ids == {top[i].id : i \in 1..Len(top)}
       IN AppendNew(IF s.id \in existing_ids THEN top ELSE Append(top, s),
                    Tail(more))

\* `top` of lines 32-42
Selected(stories, show_hn, ask_hn) ==
  AppendNew(select_stories(stories, ChannelLimit),
            select_stories(show_hn, ThreadLimit) \o select_stories(ask_hn, ThreadLimit))

\* the story with s["category"] and s["is_top"] set
Enriched(s, category, is_top) ==
  [id |-> s.id, title |-> s.title, url |-> s.url, points |-> s.points,
   comments |-> s.comments, score |-> s.score, domain |-> s.domain,
   category |-> category, is_top |-> is_top]

\* a story that gets the bucket "other" without a look at its title
Unenriched_AsOther(s) == Enriched(s, S_other, FALSE)

\* lines 67-68 and 79-80: the story gets the category of the keyword
\* classifier and is not a top story
Unenriched(s) == Enriched(s, categorize_story(s), FALSE)

\* lines 59-65: the story takes the category and the flag of its result, a
\* Show HN or Ask HN title decides the category itself
WithResult(s, r) ==
  Enriched(s,
           IF StartsWith(Lower(s.title), S_show_prefix) THEN S_show_hn
           ELSE IF StartsWith(Lower(s.title), S_ask_prefix) THEN S_ask_hn
           ELSE r.category,
           r.is_top)

Ids(top) == {top[i].id : i \in 1..Len(top)}

\* what the generation API makes of a story
Generated(s) ==
  StoryResult(<<"a", "i">>, s.id % 2 = 1, <<"T">> \o s.title, <<"S", ".">>)

\* the maps process_stories may return: with no key or no story the empty
\* map (process.py, lines 171-172); else results for any part of the
\* stories, from the cache, from the response, or none after a failure
ProcessResults(api_key, top) ==
  IF api_key = <<>> \/ top = <<>>
    THEN {<<>>}
    ELSE {[i \in have |-> Generated(top[CHOOSE k \in 1..Len(top) : top[k].id = i])]
            : have \in SUBSET Ids(top)}

\* the requests a call that returns `results` may have issued: none with no
\* key or no story; else one and one more after every 429, three at most
\* (lines 195-233), or none when all the stories came from the cache
\* (lines 188-190)
ProcessRequests(api_key, top, results) ==
  IF api_key = <<>> \/ top = <<>>
    THEN {0}
    ELSE (1..MaxAttempts) \cup (IF DOMAIN results = Ids(top) THEN {0} ELSE {})

InitDigest ==
  /\ SelIdle
  /\ ThIdle
  /\ PrIdle
  /\ CgIdle
  /\ TrIdle
  /\ FsIdle
  /\ FaIdle
  /\ FmIdle
  /\ PlIdle
  /\ CsIdle
  /\ FrIdle
  /\ RnIdle
  /\ gdKey \in {<<>>, ApiKey}
  /\ gdPc = "start"
  /\ gdTop = <<>>
  /\ gdContents = <<>>
  /\ gdRequests = 0
  /\ gdTitles = <<>>
  /\ gdSummaries = <<>>
  /\ gdRet = <<>>
  /\ gdSelected = <<>>
  /\ gdShowSelected = <<>>
  /\ gdAskSelected = <<>>

\* lines 24-44: the three fetches, the three selections, the appends
DigestSelect ==
  /\ gdPc = "start"
  /\ \E stories \in DigestLists, show_hn \in ShowLists, ask_hn \in AskLists :
       /\ gdSelected' = select_stories(stories, ChannelLimit)
       /\ gdShowSelected' = select_stories(show_hn, ThreadLimit)
       /\ gdAskSelected' = select_stories(ask_hn, ThreadLimit)
       /\ gdTop' = Selected(stories, show_hn, ask_hn)
  /\ gdPc' = "selected"
  /\ UNCHANGED <<gdOthers, gdKey, gdContents, gdRequests, gdTitles, gdSummaries, gdRet>>

\* line 48: fetch_articles returns "" for a story without URL and for a
\* story whose fetch failed, and a text for each of the others
\* (content.py, lines 63-66 and 81-84)
DigestArticles ==
  /\ gdPc = "selected"
  /\ \E got \in SUBSET {gdTop[k].id : k \in {j \in 1..Len(gdTop) : gdTop[j].url # <<>>}} :
       gdContents' = [i \in Ids(gdTop) |-> IF i \in got THEN <<"t">> ELSE <<>>]
  /\ gdPc' = "articles"
  /\ UNCHANGED <<gdOthers, gdKey, gdTop, gdRequests, gdTitles, gdSummaries, gdRet,
                 gdSelected, gdShowSelected, gdAskSelected>>

\* lines 56-76 and 84: the results laid on the stories, the titles and the
\* summaries with their defaults, the digest formatted from the stories `top`
LaidOn(results, top) ==
  /\ gdTop' = top
  /\ gdTitles' = [i \in Ids(gdTop) |->
                    IF i \in DOMAIN results THEN results[i].translation
                    ELSE gdTop[CHOOSE k \in 1..Len(gdTop) : gdTop[k].id = i].title]
  /\ gdSummaries' = [i \in Ids(gdTop) |->
                       IF i \in DOMAIN results THEN results[i].summary ELSE <<>>]
  /\ gdRet' = format_digest(top)

\* lines 53-76 and 84: with a key process_stories is called, its results
\* are laid on the stories, the digest is formatted
DigestProcess ==
  /\ gdPc = "articles"
  /\ gdKey # <<>>
  /\ \E results \in ProcessResults(gdKey, gdTop) :
       /\ LaidOn(results, [i \in 1..Len(gdTop) |->
                             IF gdTop[i].id \in DOMAIN results
                               THEN WithResult(gdTop[i], results[gdTop[i].id])
                               ELSE Unenriched(gdTop[i])])
       /\ \E n \in ProcessRequests(gdKey, gdTop, results) :
            gdRequests' = gdRequests + n
  /\ gdPc' = "done"
  /\ UNCHANGED <<gdOthers, gdKey, gdContents, gdSelected, gdShowSelected, gdAskSelected>>

\* lines 77-84: with no key every story is classified by its title and
\* domain, the digest is formatted
DigestClassify ==
  /\ gdPc = "articles"
  /\ gdKey = <<>>
  /\ LET top == [i \in 1..Len(gdTop) |-> Unenriched(gdTop[i])]
     IN /\ gdTop' = top
        /\ gdRet' = format_digest(top)
  /\ gdTitles' = [i \in Ids(gdTop) |->
                    gdTop[CHOOSE k \in 1..Len(gdTop) : gdTop[k].id = i].title]
  /\ gdSummaries' = [i \in Ids(gdTop) |-> <<>>]
  /\ gdPc' = "done"
  /\ UNCHANGED <<gdOthers, gdKey, gdContents, gdRequests, gdSelected, gdShowSelected,
                 gdAskSelected>>

NextDigest ==
  \/ DigestSelect
  \/ DigestArticles
  \/ DigestProcess
  \/ DigestClassify

SpecDigest == InitDigest /\ [][NextDigest]_vars

(***************************************************************************)
(* _parse_result_line on the title and summary of a response line          *)
(* (src/hn_digest/process.py:124-157)                                      *)
(***************************************************************************)

\* title and summary texts a response line carries: letters of either case,
\* blanks, commas and '=' signs
FieldTexts ==
  { <<"A", "b">>,
    <<"a", "B", " ", "c">>,
    <<"a", "=", "b">>,
    <<"A", ",", " ", "b">>,
    <<"x", ",", "y">>,
    <<"S", "a", "l", "o", "m", " ", "D", "u", "n", "y", "o">> }

\* the quote character the response puts around a value, if any
QuoteStyles == {<<>>, <<"\"">>, <<"'">>}

\* the line the response carries for story 1 with this title and summary
LineWith(title, summary, quote) ==
  <<"1", ".", " ">> \o S_category \o <<"=", "a", "i", ",", " ">> \o S_rank
    \o <<"=">> \o S_top \o <<",", " ">> \o S_title \o <<"=">>
    \o quote \o title \o quote \o <<",", " ">>
    \o S_summary \o <<"=">> \o quote \o summary \o quote

InitParse ==
  /\ SelIdle
  /\ ThIdle
  /\ PrIdle
  /\ CgIdle
  /\ TrIdle
  /\ FsIdle
  /\ FaIdle
  /\ FmIdle
  /\ GdIdle
  /\ CsIdle
  /\ FrIdle
  /\ RnIdle
  /\ plTitle \in FieldTexts
  /\ plSummary \in FieldTexts
  /\ plQuote \in QuoteStyles
  /\ plPc = "called"
  /\ plRet = <<>>

\* _parse_result_line parses the line
ParseLine ==
  /\ plPc = "called"
  /\ plRet' = ParseResultLine(LineWith(plTitle, plSummary, plQuote))
  /\ plPc' = "done"
  /\ UNCHANGED <<plOthers, plTitle, plSummary, plQuote>>

NextParse == ParseLine

SpecParse == InitParse /\ [][NextParse]_vars

(***************************************************************************)
(* categorize_story on one story (src/hn_digest/config.py:307-328)         *)
(***************************************************************************)

\* titles of stories: Show HN and Ask HN in several cases, with and without
\* a keyword of the table, both thread kinds at once, keywords of one and of
\* two categories, a keyword inside a word, no keyword
ClassifyTitles ==
  { TitleShowHn,
    <<"S", "H", "O", "W", " ", "H", "N", ":", " ", "x">>,
    <<"A", "S", "K", " ", "H", "N", ":", " ", "W", "h", "y", " ", "r", "u",
      "s", "t", "?">>,
    <<"a", "s", "k", " ", "h", "n", ":", " ", "x">>,
    <<"A", "s", "k", " ", "H", "N", ":", " ", "S", "h", "o", "w", " ", "H",
      "N", " ", "x">>,
    <<"A", " ", "P", "o", "s", "t", "g", "r", "e", "s", " ", "L", "L", "M">>,
    <<"R", "u", "s", "t", " ", "C", "S", "S">>,
    <<"N", "e", "w", " ", "m", "a", "l", "w", "a", "r", "e">>,
    <<"P", "a", "i", "n", "t", "i", "n", "g">>,
    <<"S", "h", "o", "w", "H", "N", " ", "x">>,
    TitleNoKeyword,
    <<>> }

\* domains of stories: none, one outside the table, domains of the table,
\* one of them inside a longer host, one in upper case
ClassifyDomains ==
  { <<>>,
    DomainPlain,
    DomainGithub,
    <<"g", "i", "s", "t", ".", "g", "i", "t", "h", "u", "b", ".", "c", "o", "m">>,
    <<"o", "p", "e", "n", "a", "i", ".", "c", "o", "m">>,
    <<"a", "r", "x", "i", "v", ".", "o", "r", "g">>,
    <<"A", "R", "X", "I", "V", ".", "O", "R", "G">>,
    <<"f", "i", "g", "m", "a", ".", "c", "o", "m">>,
    <<"c", "o", "u", "r", "s", "e", "r", "a", ".", "o", "r", "g">> }

InitClassify ==
  /\ SelIdle
  /\ ThIdle
  /\ PrIdle
  /\ CgIdle
  /\ TrIdle
  /\ FsIdle
  /\ FaIdle
  /\ FmIdle
  /\ GdIdle
  /\ PlIdle
  /\ FrIdle
  /\ RnIdle
  /\ csTitle \in ClassifyTitles
  /\ csDomain \in ClassifyDomains
  /\ csPc = "called"
  /\ csRet = <<>>

\* categorize_story classifies the story
ClassifyStory ==
  /\ csPc = "called"
  /\ csRet' = categorize_story([title |-> csTitle, domain |-> csDomain])
  /\ csPc' = "done"
  /\ UNCHANGED <<csOthers, csTitle, csDomain>>

NextClassify == ClassifyStory

SpecClassify == InitClassify /\ [][NextClassify]_vars

(***************************************************************************)
(* _fetch_one called one call at a time, run after run                     *)
(* (src/hn_digest/content.py:30-47)                                        *)
(***************************************************************************)

\* the calls of _fetch_one followed here
MaxRuns == 4

\* what the request and the extraction of lines 38-42 come to: a text, an
\* exception, or nothing extracted
FetchOutcomes == {"text", "failed", "empty"}

\* `text` after lines 36-44
FetchedText(url, outcome) == IF outcome = "text" THEN ArticleText(url) ELSE <<>>

\* the directory with no file written for an empty text
WrittenFiles_NonEmptyOnly(files, path, text) ==
  IF text = <<>> THEN files ELSE (path :> text) @@ files

\* the directory after cache_file.write_text(text)
WrittenFiles(files, path, text) == (path :> text) @@ files

\* a call of _fetch_one that ended: whether it found the cache file, whether
\* it requested the page, how the fetch ended, whether line 46 raised, what
\* the call returned (nothing when it raised), and the cache file of its URL
\* as it left it (no element: there is none)
FetchCall(url, found, requested, outcome, raised, ret, files) ==
  [url |-> url, found |-> found, requested |-> requested, outcome |-> outcome,
   raised |-> raised, ret |-> ret,
   file |-> IF ContentCachePath(url) \in DOMAIN files
              THEN <<files[ContentCachePath(url)]>> ELSE <<>>]

InitRuns ==
  /\ SelIdle
  /\ ThIdle
  /\ PrIdle
  /\ CgIdle
  /\ TrIdle
  /\ FsIdle
  /\ FaIdle
  /\ FmIdle
  /\ GdIdle
  /\ PlIdle
  /\ CsIdle
  /\ RnIdle
  /\ frFiles \in ContentCaches
  /\ frUrl = <<>>
  /\ frPc = "idle"
  /\ frText = <<>>
  /\ frHad = FALSE
  /\ frRequests = <<>>
  /\ frLog = <<>>

\* _fetch_one(session, url) is called; line 33 looks for the cache file
RunCall ==
  /\ frPc = "idle"
  /\ Len(frLog) < MaxRuns
  /\ \E url \in {ArticleUrlOne, ArticleUrlTwo} :
       /\ frUrl' = url
       /\ frHad' = (ContentCachePath(url) \in DOMAIN frFiles)
  /\ frPc' = "check"
  /\ frText' = <<>>
  /\ UNCHANGED <<frOthers, frFiles, frRequests, frLog>>

\* lines 33-34: the file exists, its text is returned
RunCached ==
  /\ frPc = "check"
  /\ ContentCachePath(frUrl) \in DOMAIN frFiles
  /\ frLog' = Append(frLog, FetchCall(frUrl, TRUE, FALSE, "none", FALSE,
                                      ReadText(frFiles[ContentCachePath(frUrl)]),
                                      frFiles))
  /\ frPc' = "idle"
  /\ UNCHANGED <<frOthers, frFiles, frUrl, frText, frHad, frRequests>>

\* lines 36-44: no file, the page is requested
RunGet ==
  /\ frPc = "check"
  /\ ContentCachePath(frUrl) \notin DOMAIN frFiles
  /\ frRequests' = Append(frRequests, frUrl)
  /\ \E outcome \in FetchOutcomes :
       /\ frText' = FetchedText(frUrl, outcome)
       /\ frPc' = outcome
  /\ UNCHANGED <<frOthers, frFiles, frUrl, frHad, frLog>>

\* lines 46-47: the text, empty or not, is written and returned
RunWrite ==
  /\ frPc \in FetchOutcomes
  /\ frFiles' = WrittenFiles(frFiles, ContentCachePath(frUrl), frText)
  /\ frLog' = Append(frLog, FetchCall(frUrl, FALSE, TRUE, frPc, FALSE, frText,
                                      WrittenFiles(frFiles, ContentCachePath(frUrl), frText)))
  /\ frPc' = "idle"
  /\ UNCHANGED <<frOthers, frUrl, frText, frHad, frRequests>>

\* the directories cache_file.write_text(text) of line 46 may leave when it
\* raises: the one it found when open() raised (the directory is read-only),
\* or one with a part of the text in the file when the write raised after
\* open() (the disk is full)
FailedContentWrites(files, path, text) ==
  {files} \cup {WrittenFiles(files, path, part) : part \in PartialWrites(text)}

\* line 46 raises: the call ends with the exception and returns nothing
RunWriteRaises ==
  /\ frPc \in FetchOutcomes
  /\ \E files \in FailedContentWrites(frFiles, ContentCachePath(frUrl), frText) :
       /\ frFiles' = files
       /\ frLog' = Append(frLog, FetchCall(frUrl, FALSE, TRUE, frPc, TRUE, <<>>, files))
  /\ frPc' = "idle"
  /\ UNCHANGED <<frOthers, frUrl, frText, frHad, frRequests>>

NextRuns ==
  \/ RunCall
  \/ RunCached
  \/ RunGet
  \/ RunWrite
  \/ RunWriteRaises

SpecRuns == InitRuns /\ [][NextRuns]_vars

(***************************************************************************)
(* escape_html and format_story_lines (src/hn_digest/formatter.py:17-19,   *)
(* 115-155)                                                                *)
(***************************************************************************)

\* stand for the no-break space and the middle dot of the metadata line
Nbsp == "nbsp"

Middot == "middot"

\* text.replace("&", "&amp;").replace("<", "&lt;").replace(">", "&gt;")
escape_html(text) ==
  Replace(Replace(Replace(text, <<"&">>, <<"&", "a", "m", "p", ";">>),
                  <<"<">>, <<"&", "l", "t", ";">>),
          <<">">>, <<"&", "g", "t", ";">>)

DigitChar(d) ==
  CASE d = 0 -> "0" [] d = 1 -> "1" [] d = 2 -> "2" [] d = 3 -> "3"
    [] d = 4 -> "4" [] d = 5 -> "5" [] d = 6 -> "6" [] d = 7 -> "7"
    [] d = 8 -> "8" [] d = 9 -> "9"

\* str(n) for n >= 0
RECURSIVE IntText(_)
IntText(n) ==
  IF n < 10 THEN <<DigitChar(n)>>
  ELSE IntText(n \div 10) \o <<DigitChar(n % 10)>>

HN_ITEM_Prefix ==
  <<"h", "t", "t", "p", "s", ":", "/", "/", "n", "e", "w", "s", ".", "y",
    "c", "o", "m", "b", "i", "n", "a", "t", "o", "r", ".", "c", "o", "m",
    "/", "i", "t", "e", "m", "?", "i", "d", "=">>

\* HN_ITEM.format(id)
HnUrl(id) == HN_ITEM_Prefix \o IntText(id)

\* LABELS["points"]["en"] and LABELS["comments"]["en"]
LabelPoints == <<"p", "o", "i", "n", "t", "s">>

LabelComments == <<"c", "o", "m", "m", "e", "n", "t", "s">>

LinkOpen ==
  <<"<", "b", ">", "<", "a", " ", "h", "r", "e", "f", "=", "\"">>

LinkMiddle == <<"\"", ">">>

LinkClose == <<"<", "/", "a", ">", "<", "/", "b", ">">>

BoldOpen == <<"<", "b", ">">>

BoldClose == <<"<", "/", "b", ">">>

ItalicOpen == <<"<", "i", ">">>

ItalicClose == <<"<", "/", "i", ">">>

AnchorOpen == <<"<", "a", " ", "h", "r", "e", "f", "=", "\"">>

AnchorClose == <<"<", "/", "a", ">">>

\* titles.get(s["id"], s["title"]) and (summaries or {}).get(s["id"], "")
MapGet(map, id, default) == IF id \in DOMAIN map THEN map[id] ELSE default

\* s.get("category", "") in ("show_hn", "ask_hn")
IsHnThread(s) == s.category \in {S_show_hn, S_ask_hn}

\* title_line of lines 122-141
TitleLine(s, titles) ==
  LET title == escape_html(MapGet(titles, s.id, s.title))
  IN IF IsHnThread(s)
       THEN LinkOpen \o HnUrl(s.id) \o LinkMiddle \o title \o LinkClose
     ELSE IF s.url # <<>>
       THEN LinkOpen \o s.url \o LinkMiddle \o title \o LinkClose
     ELSE BoldOpen \o title \o BoldClose

\* the summary line of lines 144-147, if any
SummaryLines(s, summaries) ==
  LET summary == MapGet(summaries, s.id, <<>>)
  IN IF ~IsHnThread(s) /\ summary # <<>> THEN <<escape_html(summary)>> ELSE <<>>

\* meta_line of lines 150-154
MetaLine(s) ==
  IF IsHnThread(s)
    THEN ItalicOpen \o IntText(s.points) \o <<Nbsp>> \o LabelPoints
           \o <<" ", Middot, " ">> \o IntText(s.comments) \o <<Nbsp>>
           \o LabelComments \o ItalicClose
    ELSE ItalicOpen \o IntText(s.points) \o <<Nbsp>> \o LabelPoints
           \o <<" ", Middot, " ">> \o AnchorOpen \o HnUrl(s.id) \o LinkMiddle
           \o IntText(s.comments) \o <<Nbsp>> \o LabelComments \o AnchorClose
           \o ItalicClose

\* format_story_lines(s, titles, summaries, "en")
format_story_lines(s, titles, summaries) ==
  <<TitleLine(s, titles)>> \o SummaryLines(s, summaries) \o <<MetaLine(s)>>

\* texts of stories: plain, with each of the three characters, with an
\* entity already in it, with a double quote
RenderTexts ==
  { <<"A", "b">>,
    <<"a", "&", "b">>,
    <<"<", "b", ">">>,
    <<"&", "l", "t", ";", "x">>,
    <<"a", "\"", "b">> }

UrlPlain ==
  <<"h", "t", "t", "p", "s", ":", "/", "/", "a", ".", "c", "o", "m", "/",
    "x">>

UrlQuery ==
  <<"h", "t", "t", "p", "s", ":", "/", "/", "a", ".", "c", "o", "m", "/",
    "?", "x", "=", "1", "&", "y", "=", "2">>

UrlAngle ==
  <<"h", "t", "t", "p", "s", ":", "/", "/", "a", ".", "c", "o", "m", "/",
    "<", "p", ">">>

\* s["url"]: none, a plain one, one with '&' in its query, one with '<'
RenderUrls == {<<>>, UrlPlain, UrlQuery, UrlAngle}

\* s["category"]
RenderCategories == {<<"a", "i">>, S_show_hn, S_ask_hn, S_other}

\* the id of the story rendered
RenderId == 42

InitRender ==
  /\ SelIdle
  /\ ThIdle
  /\ PrIdle
  /\ CgIdle
  /\ TrIdle
  /\ FsIdle
  /\ FaIdle
  /\ FmIdle
  /\ GdIdle
  /\ PlIdle
  /\ CsIdle
  /\ FrIdle
  /\ \E title \in RenderTexts, url \in RenderUrls, category \in RenderCategories :
       rnStory = [id |-> RenderId, title |-> title, url |-> url, points |-> 120,
                  comments |-> 7, category |-> category]
  /\ rnTitles \in {<<>>} \cup {(RenderId :> t) : t \in RenderTexts}
  /\ rnSummaries \in {<<>>} \cup {(RenderId :> t) : t \in RenderTexts \cup {<<>>}}
  /\ rnPc = "called"
  /\ rnRet = <<>>

\* format_story_lines renders the story
RenderStory ==
  /\ rnPc = "called"
  /\ rnRet' = format_story_lines(rnStory, rnTitles, rnSummaries)
  /\ rnPc' = "done"
  /\ UNCHANGED <<rnOthers, rnStory, rnTitles, rnSummaries>>

NextRender == RenderStory

SpecRender == InitRender /\ [][NextRender]_vars

(***************************************************************************)
(* Properties of select_stories.                                           *)
(***************************************************************************)
\* the admitted stories of `result` whose derived domain is d
SameDomain(result, d) == {i \in 1..Len(result) : result[i].domain = d}

\* C1: for every story list and every limit, select_stories returns at most
\* `limit` stories and at most 3 stories sharing one derived domain.
C1_AtMostLimitAndThreePerDomain ==
  selPc = "done" =>
    /\ Len(selResult) <= selLimit
    /\ \A i \in 1..Len(selResult) :
         Cardinality(SameDomain(selResult, selResult[i].domain)) <= 3

\* the phrase w stands in the title at position i, letter case aside
PhraseAt(title, w, i) ==
  /\ i + Len(w) - 1 <= Len(title)
  /\ \A k \in 1..Len(w) : LowerChar(title[i + k - 1]) = <<w[k]>>

\* the title contains a job-posting phrase as a case-insensitive substring
HasJobPhrase(title) ==
  \E n \in 1..Len(JOB_WORDS) : \E i \in 1..Len(title) : PhraseAt(title, JOB_WORDS[n], i)

\* C15: no story without a URL whose title is shorter than 20 characters,
\* and no story whose title contains a job-posting phrase in any letter
\* case, appears in the result of select_stories.
C15_ShortUrllessAndJobStoriesDropped ==
  selPc = "done" =>
    \A i \in 1..Len(selResult) :
      /\ ~(selResult[i].url = <<>> /\ Len(selResult[i].title) < 20)
      /\ ~HasJobPhrase(selResult[i].title)

\* the list held a job posting in capitals and a short story without URL;
\* both are missing from a result that the limit did not cut
C15_Witness ==
  /\ selPc = "done"
  /\ \E i \in 1..Len(selStories) : HasJobPhrase(selStories[i].title)
  /\ \E i \in 1..Len(selStories) :
       selStories[i].url = <<>> /\ Len(selStories[i].title) < 20
  /\ Len(selStories) = 4
  /\ Len(selResult) = 2
  /\ selLimit > 2

(***************************************************************************)
(* Properties of post_thread.                                              *)
(***************************************************************************)
RootPosted == thPosts # <<>> /\ thPosts[1].id # NoneId

RootFailed == thPosts # <<>> /\ thPosts[1].id = NoneId

\* C4: when posting message 0 fails the call returns False and no reply is
\* posted; with an empty message list it returns False without any post.
C4_RootFailureAborts ==
  /\ RootFailed => thPc = "done" /\ thRet = "False" /\ Len(thPosts) = 1
  /\ thMsgs = 0 => thPosts = <<>> /\ (thPc = "done" => thRet = "False")

\* the root post failed in a thread that had replies to send
C4_Witness ==
  /\ RootFailed
  /\ thMsgs >= 3
  /\ thPc = "done"
  /\ thRet = "False"

\* the ids of the successful posts among posts[from..], in posting order
RECURSIVE SucceededIds(_, _)
SucceededIds(posts, from) ==
  IF from > Len(posts) THEN <<>>
  ELSE (IF posts[from].id # NoneId THEN <<posts[from].id>> ELSE <<>>)
         \o SucceededIds(posts, from + 1)

\* C5: message 0 is posted first with no reply-to, then messages 1..N in list
\* order, each with reply-to = the id returned for message 0; no reply is
\* sent before the root post succeeded; reply_ids are exactly the ids of the
\* replies that succeeded, in posting order.
C5_RootThenRepliesInOrder ==
  /\ \A i \in 1..Len(thPosts) : thPosts[i].msg = i - 1
  /\ thPosts # <<>> => thPosts[1].reply_to = NoneId
  /\ \A i \in 2..Len(thPosts) :
       RootPosted /\ thPosts[i].reply_to = thPosts[1].id
  /\ thVersion = "hndigest" => thReplyIds = SucceededIds(thPosts, 2)

\* a thread whose second reply failed between two replies that succeeded
C5_Witness ==
  /\ thVersion = "hndigest"
  /\ thPc = "done"
  /\ Len(thPosts) = 4
  /\ thPosts[2].id # NoneId
  /\ thPosts[3].id = NoneId
  /\ thPosts[4].id # NoneId
  /\ Len(thReplyIds) = 2

\* C6: a failed reply does not stop the thread: whatever replies fail, every
\* remaining reply is still attempted, in order, and the call returns True.
C6_ReplyFailureIsNotFatal ==
  (thPc = "done" /\ RootPosted) =>
    /\ thRet = "True"
    /\ Len(thPosts) = thMsgs
    /\ \A i \in 1..thMsgs : thPosts[i].msg = i - 1

\* the first reply failed and the two replies after it were still attempted
C6_Witness ==
  /\ thPc = "done"
  /\ thRet = "True"
  /\ thMsgs = 4
  /\ Len(thPosts) = 4
  /\ thPosts[2].id = NoneId
  /\ thPosts[3].id = NoneId
  /\ thPosts[4].id # NoneId

\* C20: the root message is rewritten at most once per call, and only after
\* the root and every reply of the list have been posted or have failed;
\* whether the rewrite succeeds or fails, it is the last request of the call
\* and the call returns True.
C20_RootRewrittenOnceAfterReplies ==
  /\ Len(thEdits) <= 1
  /\ \A k \in 1..Len(thEdits) :
       /\ thEdits[k].posts = thMsgs
       /\ \A i \in 1..(thMsgs - 1) :
            \E j \in 1..thEdits[k].posts : thPosts[j].msg = i /\ thPosts[j].reply_to = thMainId
       /\ thEdits[k].message_id = thMainId
       /\ thMainId # NoneId
       /\ Len(thPosts) = thEdits[k].posts
       /\ thPc = "done"
       /\ thRet = "True"

\* the rewrite of the root failed after three replies, one of which had
\* failed too; the call returned True
C20_Witness ==
  /\ Len(thEdits) = 1
  /\ ~thEdits[1].ok
  /\ thMsgs = 4
  /\ \E j \in 2..Len(thPosts) : thPosts[j].id = NoneId
  /\ thRet = "True"

(***************************************************************************)
(* Properties of process_stories.                                          *)
(***************************************************************************)
\* the cache file of the i-th story of the batch in this call's language
KeyOf(i) ==
  CacheKey(prStories[i], ContentsGet(prContents, prStories[i].id), prChannel.language)

\* the stories whose cache file existed and parsed when the call started
ValidAtStart ==
  {i \in 1..Len(prStories) :
     KeyOf(i) \in DOMAIN prSnapshot /\ ParsedCacheFile(prSnapshot[KeyOf(i)]).ok}

\* the results those files held, by story id
CachedAtStart ==
  [id \in {prStories[i].id : i \in ValidAtStart} |->
     LET i == CHOOSE j \in ValidAtStart : prStories[j].id = id
     IN ParsedCacheFile(prSnapshot[KeyOf(i)]).result]

\* a call has ended that follows a call for the same language which the API
\* answered with an entry for every story of the batch
SecondCallDone ==
  /\ prPc = "done"
  /\ prPrev.valid
  /\ prPrev.channel = prChannel.language
  /\ prPrev.end = "ok"
  /\ DOMAIN prPrev.ret = {prStories[i].id : i \in 1..Len(prStories)}

\* C2: the second of two calls with identical stories, content and language
\* issues no request and returns the map the first call returned; stated for
\* the case most favourable to the claim, a first call whose response
\* covered the whole batch.
C2_SecondCallIdempotent ==
  SecondCallDone => prReqs = <<>> /\ prRet = prPrev.ret

\* C3: a call issues at most 3 requests, each with the prompt of the whole
\* batch; request k+1 follows only a 429 answer to request k and a wait of
\* 10 s x k; after a success or any other failure the call is over.
C3_AtMostThreeRequestsRetryOn429 ==
  /\ Len(prReqs) <= 3
  /\ \A k \in 1..Len(prReqs) :
       /\ prReqs[k].prompt = PromptOf[prStories, prContents, prChannel]
       /\ Len(prReqs[k].prompt.stories) = Len(prStories)
       /\ prReqs[k].attempt = k - 1
       /\ k > 1 => /\ prReqs[k - 1].code = 429
                   /\ prReqs[k].waited = 10 * (k - 1)
  /\ (prReqs # <<>> /\ prReqs[Len(prReqs)].code # 429) => prPc = "done"
  /\ Len(prReqs) = 3 => prPc = "done"

\* the third request of a call succeeded after two 429 answers
C3_Witness ==
  /\ Len(prReqs) = 3
  /\ prReqs[3].status = "ok"
  /\ prReqs[3].waited = 20
  /\ prReqs[2].waited = 10
  /\ Len(prStories) = 2

\* the first character of the line once surrounding whitespace is dropped
FirstNonSpaceOf(line) == IF Strip(line) = <<>> THEN "" ELSE Strip(line)[1]

\* the line's 1-based story index: the number before its first ".",
\* ValueError when there is none
LineIndexOf(line) ==
  IF /\ Len(SplitOnce(Strip(line), ".")) = 2
     /\ ToInt(Strip(SplitOnce(Strip(line), ".")[1])).ok
    THEN ToInt(Strip(SplitOnce(Strip(line), ".")[1])).n
    ELSE ValueError

\* the category the line names, in lower case
LineCategoryOf(line) ==
  IF Len(SplitOnce(Strip(line), ".")) = 2
    THEN ExtractField(Lower(SplitOnce(Strip(line), ".")[2]), S_category)
    ELSE <<>>

\* the three, computed once for every line of the model
LineFacts ==
  [line \in LinesSeen |->
     [first |-> FirstNonSpaceOf(line), index |-> LineIndexOf(line),
      category |-> LineCategoryOf(line)]] @@ <<>>

FirstNonSpace(line) == LineFacts[line].first

LineIndex(line) == LineFacts[line].index

LineCategory(line) == LineFacts[line].category

IndexInBatch(line) == LineIndex(line) \in 1..Len(prStories)

\* an in-range line with an unrecognized category adds its entry under
\* 'other', with the top flag, title and summary of the line (the entry is
\* in the log also when the write of its cache file raised)
AddsUnderOther(i) ==
  (/\ IsDigit(FirstNonSpace(prLines[i]))
   /\ IndexInBatch(prLines[i])
   /\ LineCategory(prLines[i]) \notin VALID_CATEGORIES)
  => /\ prLineLog[i] # NoEffect
     /\ prLineLog[i].id = prStories[LineIndex(prLines[i])].id
     /\ prLineLog[i].key = KeyOf(LineIndex(prLines[i]))
     /\ prLineLog[i].result =
          [ParsedLine(prLines[i]).result EXCEPT !.category = S_other]

\* C7 as stated: a line that does not start with a digit, or whose index is
\* outside [1, N], adds nothing to the result map and writes no cache entry;
\* an in-range line with an unrecognized category is added under 'other'.
C7_LineNotStartingWithDigitSkipped ==
  \A i \in 1..Len(prLines) :
    /\ (\/ prLines[i] = <<>>
        \/ ~IsDigit(prLines[i][1])
        \/ ~IndexInBatch(prLines[i])) => prLineLog[i] = NoEffect
    /\ AddsUnderOther(i)

\* C8: cache entries are append-only, every key is written at most once
\* across any sequence of calls.
C8_EachKeyWrittenOnce ==
  \A key \in DOMAIN cacheWrites : cacheWrites[key] <= 1

\* C9 as stated: when every story of the batch has a valid cache entry as
\* the call starts, the call returns exactly those cached results and issues
\* no request.
C9_AllCachedReturnsCacheWithoutRequest ==
  (prCall >= 1 /\ ValidAtStart = 1..Len(prStories)) =>
    /\ prPc = "done"
    /\ prReqs = <<>>
    /\ prRet = CachedAtStart

\* C9: when every story of the batch has a valid cache entry as the call
\* starts, the call issues no request; given an API key it returns exactly
\* those cached results, given none it returns the empty map.
C9_AllCachedNoRequestCacheReturnedWithKey ==
  (prCall >= 1 /\ ValidAtStart = 1..Len(prStories)) =>
    /\ prPc = "done"
    /\ prReqs = <<>>
    /\ prRet = IF prKey = <<>> THEN <<>> ELSE CachedAtStart

\* a second call, given a key, found both stories of the batch in the cache
C9_Witness ==
  /\ prCall = 2
  /\ prKey = ApiKey
  /\ Len(prStories) = 2
  /\ ValidAtStart = {1, 2}
  /\ prEnd = "cached"
  /\ DOMAIN prRet = {prStories[1].id, prStories[2].id}

\* C10: when the generation call fails (a third 429, another HTTP error, an
\* exception) the call returns exactly the results that were valid in the
\* cache when it started; it ends with a return value, not an exception.
C10_FailureReturnsCacheAtStart ==
  prEnd = "failed" =>
    /\ prPc = "done"
    /\ prReqs # <<>>
    /\ prRet = CachedAtStart

\* a call for two stories, one of them cached, failed after three 429 answers
C10_Witness ==
  /\ prEnd = "failed"
  /\ Len(prStories) = 2
  /\ Cardinality(ValidAtStart) = 1
  /\ DOMAIN prRet = {prStories[i].id : i \in ValidAtStart}
  /\ Len(prReqs) = 3
  /\ prReqs[3].code = 429

\* a response was received (status 200, a body of the expected shape) and
\* the call has returned
ResponseReceived ==
  /\ prPc = "done"
  /\ prReqs # <<>>
  /\ prReqs[Len(prReqs)].status = "ok"

\* the lines of the log that stored a result under the cache file `key`
LinesFor(key) == {j \in 1..Len(prLineLog) : prLineLog[j].hit /\ prLineLog[j].key = key}

\* the last of them
LastLineFor(key) == CHOOSE j \in LinesFor(key) : \A m \in LinesFor(key) : m <= j

\* C11 as stated: once the call that received a response returns, the cache
\* holds the result of every parsed in-range line of the response, whatever
\* became of the lines behind it.
C11_EveryParsedLineStored ==
  ResponseReceived =>
    \A i \in 1..Len(prLines) :
      (IsDigit(FirstNonSpace(prLines[i])) /\ IndexInBatch(prLines[i])) =>
        /\ KeyOf(LineIndex(prLines[i])) \in DOMAIN cache
        /\ cache[KeyOf(LineIndex(prLines[i]))] =
             SerializeResult(ParsedLine(prLines[i]).result)

\* the well-formed lines among `lines` that carry the 1-based index n
GoodLines(lines, n) ==
  {i \in 1..Len(lines) : IsDigit(FirstNonSpace(lines[i])) /\ LineIndex(lines[i]) = n}

\* the last element of a non-empty set of line numbers
LastOf(S) == CHOOSE j \in S : \A m \in S : m <= j

\* the places of the batch that some well-formed line of the response names
NamedPlaces == {n \in 1..Len(prStories) : GoodLines(prLines, n) # {}}

\* the result on the last line that names place n
LastResult(n) == ParsedLine(prLines[LastOf(GoodLines(prLines, n))]).result

\* the map a response gives when it is all a call has: the result of the last
\* line of every story it names, and no entry for another story
ResponseResults ==
  [id \in {prStories[n].id : n \in NamedPlaces} |->
     LastResult(CHOOSE n \in NamedPlaces : prStories[n].id = id)]

\* the cache directory the call found, with the file of every story the
\* response names holding the result of the last line that names it
ResponseCache ==
  [key \in DOMAIN prSnapshot \cup {KeyOf(n) : n \in NamedPlaces} |->
     IF \E n \in NamedPlaces : KeyOf(n) = key
       THEN SerializeResult(LastResult(CHOOSE n \in NamedPlaces : KeyOf(n) = key))
       ELSE prSnapshot[key]]

\* the response was the answer to the first request of the call
FirstAttemptSucceeded ==
  /\ prEnd = "ok"
  /\ Len(prReqs) = 1

\* the API answered 429 to attempts 1 and 2 and the response to attempt 3
ThirdAttemptSucceeded ==
  /\ prEnd = "ok"
  /\ Len(prReqs) = 3
  /\ prReqs[1].code = RateLimited
  /\ prReqs[2].code = RateLimited

\* C13: when the API answers HTTP 429 to attempts 1 and 2 and succeeds on
\* attempt 3, process_stories returns the result map and leaves the cache
\* contents of a call that gets the same response on its first attempt (both
\* are what the response alone gives on the cache the call found), and the
\* waits are 10 s and 20 s, 30 s in all.
C13_ThirdAttemptLikeFirst ==
  /\ FirstAttemptSucceeded =>
       /\ prRet = ResponseResults
       /\ cache = ResponseCache
       /\ prSleeps = <<>>
  /\ ThirdAttemptSucceeded =>
       /\ prRet = ResponseResults
       /\ cache = ResponseCache
       /\ prSleeps = <<BackoffStep, 2 * BackoffStep>>
       /\ prSleeps[1] + prSleeps[2] = 30

\* the second call of a run, with one of two stories cached, got its
\* response on the third attempt
C13_Witness ==
  /\ ThirdAttemptSucceeded
  /\ Len(prStories) = 2
  /\ prSnapshot # <<>>
  /\ prCached # <<>>
  /\ prRet # <<>>
  /\ prReqs[3].status = "ok"

(***************************************************************************)
(* Properties of the three response parsers.                               *)
(***************************************************************************)
\* the first character and the index of every line of the translation
\* responses, computed once
TranslationLineFacts ==
  [line \in TranslationLinesSeen |->
     [first |-> FirstNonSpaceOf(line), index |-> LineIndexOf(line)]] @@ <<>>

GoodTranslationLines(n) ==
  {i \in 1..Len(trLines) :
     /\ IsDigit(TranslationLineFacts[trLines[i]].first)
     /\ TranslationLineFacts[trLines[i]].index = n}

\* process_stories: the result of the last well-formed line of every story
\* is returned and cached whatever the other lines are
ProcessKeepsWellFormedLines ==
  prEnd = "ok" =>
    \A n \in 1..Len(prStories) :
      GoodLines(prLines, n) # {} =>
        /\ prStories[n].id \in DOMAIN prRet
        /\ prRet[prStories[n].id] = ParsedLine(prLines[LastOf(GoodLines(prLines, n))]).result
        /\ KeyOf(n) \in DOMAIN cache
        /\ cache[KeyOf(n)] = SerializeResult(prRet[prStories[n].id])

\* categorize_and_rank_batch: the same, the lines number the uncached stories
CategorizeKeepsWellFormedLines ==
  cgEnd = "ok" =>
    \A n \in 1..Len(cgUncached) :
      GoodLines(cgLines, n) # {} =>
        /\ cgUncached[n].id \in DOMAIN cgRet
        /\ cgRet[cgUncached[n].id] =
             CategorizedLine(cgLines[LastOf(GoodLines(cgLines, n))]).entry
        /\ CategoryCacheKey(cgUncached[n]) \in DOMAIN cgFiles
        /\ cgFiles[CategoryCacheKey(cgUncached[n])] =
             CategoryCacheValue(cgRet[cgUncached[n].id])

\* the title at position i occurs once in the list
OccursOnce(i) == \A j \in 1..Len(trTitles) : trTitles[j] = trTitles[i] => j = i

\* translate_batch: the same, the lines number the uncached titles; the
\* cache file is looked at for a title that occurs once in the list
TranslateKeepsWellFormedLines ==
  (trPc = "done" /\ trReqs # <<>> /\ trReqs[Len(trReqs)].status = "ok") =>
    \A n \in 1..Len(trUncached) :
      GoodTranslationLines(n) # {} =>
        /\ trRet[trUncached[n]] = TranslatedLine(trLines[LastOf(GoodTranslationLines(n))]).trans
        /\ OccursOnce(trUncached[n]) =>
             /\ TranslationCacheKey(trPrompt, trTitles[trUncached[n]]) \in DOMAIN trFiles
             /\ trFiles[TranslationCacheKey(trPrompt, trTitles[trUncached[n]])] =
                  trRet[trUncached[n]]

\* C12: a malformed response line (unparseable number prefix, out-of-range
\* index, unknown or missing field) is skipped on its own and never aborts
\* the batch: the results of all well-formed lines of the same response are
\* still returned and cached, in process_stories, categorize_and_rank_batch
\* and translate_batch.
C12_MalformedLineNeverAbortsBatch ==
  /\ ProcessKeepsWellFormedLines
  /\ CategorizeKeepsWellFormedLines
  /\ TranslateKeepsWellFormedLines

(***************************************************************************)
(* Properties of fetch_stories.                                            *)
(***************************************************************************)
\* the object ids of the hits of the first k answers, in page order
RECURSIVE HitIdsUpTo(_)
HitIdsUpTo(k) ==
  IF k = 0 THEN <<>>
  ELSE HitIdsUpTo(k - 1)
         \o [i \in 1..Len(fsLog[k].hits) |-> fsLog[k].hits[i].objectID]

\* the number of answers before the first page without hits or the first
\* failed request
PagesReceived ==
  IF \E k \in 1..Len(fsLog) : fsLog[k].kind # "hits"
    THEN (CHOOSE k \in 1..Len(fsLog) :
            /\ fsLog[k].kind # "hits"
            /\ \A j \in 1..(k - 1) : fsLog[j].kind = "hits") - 1
    ELSE Len(fsLog)

\* C16: the pages 0..4 are requested in increasing order, at most 5
\* requests; no request follows a page without hits or a failed request;
\* the call returns (it does not raise) the hits of the pages received
\* before that point, in page order.
C16_PagesInOrderStopAndReturnPrefix ==
  /\ Len(fsLog) <= 5
  /\ \A k \in 1..Len(fsLog) : fsLog[k].page = k - 1
  /\ \A k \in 1..(Len(fsLog) - 1) : fsLog[k].kind = "hits"
  /\ (fsLog # <<>> /\ fsLog[Len(fsLog)].kind # "hits") => fsPc = "done"
  /\ Len(fsLog) = 5 => fsPc = "done"
  /\ fsPc = "done" =>
       /\ Len(fsRet) = Len(HitIdsUpTo(PagesReceived))
       /\ \A i \in 1..Len(fsRet) :
            /\ fsRet[i].title = <<"T">> \o HitIdsUpTo(PagesReceived)[i]
            /\ fsRet[i].id = DigitsValue(HitIdsUpTo(PagesReceived)[i], 0)

\* the third request failed: the hits of pages 0 and 1 are returned
C16_Witness ==
  /\ fsPc = "done"
  /\ Len(fsLog) = 3
  /\ fsLog[3].kind = "failed"
  /\ fsLog[3].hits # <<>>
  /\ Len(fsRet) = 3
  /\ fsRet[1].id = 11
  /\ fsRet[3].id = 21

(***************************************************************************)
(* Properties of fetch_articles.                                           *)
(***************************************************************************)
\* the write_text calls on the file `path`
WritesOf(path) == {k \in 1..Len(faWrites) : faWrites[k].path = path}

\* C17: for every batch and every interleaving of the tasks of the pool,
\* each file of the content cache is written at most once, never by two
\* tasks.
C17_EachContentKeyWrittenOnce ==
  \A k \in 1..Len(faWrites) :
    /\ Cardinality(WritesOf(faWrites[k].path)) <= 1
    /\ \A j \in 1..Len(faWrites) :
         faWrites[j].path = faWrites[k].path => faWrites[j].task = faWrites[k].task

\* the request of the story's task failed, or the task raised
FetchFailed(i) == faTasks[i].failed \/ faTasks[i].raised

\* the entry the claim allows for the story at position i: "" without a
\* URL, else the text extracted from its URL (by this call, or by the
\* earlier run that left the cache file), or "" after a failed fetch
OwnEntry(i, entry) ==
  IF faStories[i].url = <<>> THEN entry = <<>>
  ELSE \/ entry = ArticleText(faStories[i].url)
       \/ entry = <<>> /\ FetchFailed(i)
       \/ /\ ContentCachePath(faStories[i].url) \in DOMAIN faAtStart
          /\ entry = faAtStart[ContentCachePath(faStories[i].url)]

\* C18: whatever the order in which the tasks complete, the returned map
\* has exactly one entry per story id of the batch, and the entry is the
\* story's own extracted text, or "" for a story without URL or with a
\* failed fetch.
C18_OneOwnEntryPerStory ==
  faPc = "done" =>
    /\ DOMAIN faRet = {faStories[i].id : i \in 1..Len(faStories)}
    /\ \A i \in 1..Len(faStories) : OwnEntry(i, faRet[faStories[i].id])

(***************************************************************************)
(* Properties of format_digest.                                            *)
(***************************************************************************)
\* the sections after the root message
Replies(messages) == SubSeq(messages, 2, Len(messages))

\* the top section has at most 10 stories and at least one when the story
\* list is not empty
TopSectionBounded ==
  /\ Len(fmRet[1].stories) <= 10
  /\ fmStories # <<>> => Len(fmRet[1].stories) >= 1

\* every category section has at most 5 stories
CategorySectionsBounded ==
  \A k \in 2..Len(fmRet) : Len(fmRet[k].stories) <= 5

\* C14 as it is written: for every input to format_digest the top section
\* of the root message holds at most 10 stories and at least one when the
\* story list is non-empty, every category section holds at most 5 stories,
\* and no section with zero stories is emitted, the top section included.
C14_NoSectionWithoutStories ==
  fmPc = "done" =>
    /\ TopSectionBounded
    /\ CategorySectionsBounded
    /\ \A k \in 1..Len(fmRet) : fmRet[k].stories # <<>>

\* C14, amended: for every input to format_digest the top section of the
\* root message holds at most 10 stories, and it holds no story exactly when
\* the story list is empty; every category section holds at least one and at
\* most 5 stories.
C14_SectionsBounded ==
  fmPc = "done" =>
    /\ Len(fmRet) >= 1
    /\ fmRet[1].key = S_top
    /\ TopSectionBounded
    /\ (fmRet[1].stories = <<>>) <=> (fmStories = <<>>)
    /\ CategorySectionsBounded
    /\ \A k \in 2..Len(fmRet) : fmRet[k].stories # <<>>

\* more than 10 stories are flagged and more than 5 of the others share a
\* category: both caps cut, and a category section is emitted
C14_Witness ==
  /\ fmPc = "done"
  /\ Len(Flagged(fmStories)) > 10
  /\ Len(fmRet[1].stories) = 10
  /\ \E k \in 2..Len(fmRet) :
       /\ Len(fmRet[k].stories) = 5
       /\ Len(CategoryStories(fmStories, TopIds(fmStories), fmRet[k].key)) > 5

(***************************************************************************)
(* Properties of generate_digest.                                          *)
(***************************************************************************)
\* the story has the category of the keyword classifier and is no top story
ClassifiedOnly(s) == s.category = categorize_story(s) /\ s.is_top = FALSE

\* C19: with no generation-API credential generate_digest issues no
\* generation-API request, and every story of its output has the category
\* of categorize_story and is_top = False, its title is the original title
\* and its summary is empty.
C19_NoKeyMeansClassifierOnly ==
  (gdPc = "done" /\ gdKey = <<>>) =>
    /\ gdRequests = 0
    /\ \A i \in 1..Len(gdTop) :
         /\ ClassifiedOnly(gdTop[i])
         /\ gdTitles[gdTop[i].id] = gdTop[i].title
         /\ gdSummaries[gdTop[i].id] = <<>>
    /\ \A k \in 1..Len(gdRet) : \A j \in 1..Len(gdRet[k].stories) :
         ClassifiedOnly(gdRet[k].stories[j])

\* a digest made with no credential: a Show HN story and a story that the
\* classifier places by its domain are in it
C19_Witness ==
  /\ gdPc = "done"
  /\ gdKey = <<>>
  /\ \E i, j \in 1..Len(gdTop) :
       /\ gdTop[i].category = S_show_hn
       /\ gdTop[j].title = TitleNoKeyword
       /\ gdTop[j].category = <<"c", "o", "d", "e">>
  /\ Len(gdRet[1].stories) >= 2

(***************************************************************************)
(* Properties of categorize_and_rank_batch.                                *)
(***************************************************************************)
\* the valid cache entries of the stories when the call began
CategoryHitsAtStart ==
  CheckCategoryCache(cgStories, cgSnapshot, [cached |-> <<>>, uncached |-> <<>>]).cached

\* the call is over and its generation call failed: a non-429 HTTP error,
\* another exception, or the third 429 in a row
CategorizeCallFailed == cgPc = "done" /\ cgEnd = "failed"

\* the last request of the call ended with an error
LastRequestFailed == cgReqs # <<>> /\ cgReqs[Len(cgReqs)].status # "ok"

\* C21: categorize_and_rank_batch returns an empty dict whenever the
\* generation call fails (a non-429 HTTP error, any other exception of the
\* request, or three consecutive 429 responses).
C21_FailureReturnsEmptyDict ==
  (CategorizeCallFailed /\ LastRequestFailed) => cgRet = <<>>

(***************************************************************************)
(* Properties of translate_batch.                                          *)
(***************************************************************************)
\* C22: translate_batch returns a list as long as `titles`,
\* and when the generation call fails it returns the original titles
\* unchanged in every position.
C22_FailureReturnsOriginals ==
  trPc = "done" =>
    /\ Len(trRet) = Len(trTitles)
    /\ trEnd = "failed" => trRet = trTitles

\* C23: when the generation call succeeds, the map returned by
\* process_stories has an entry for every story that had a valid cache entry
\* at the start of the call, even when the response has no usable line for
\* that story.
C23_CachedStoriesInReturnedMap ==
  (prPc = "done" /\ prEnd = "ok") => DOMAIN prCached \subseteq DOMAIN prRet

(***************************************************************************)
(* Properties of the walk and the order of select_stories.                 *)
(***************************************************************************)
\* the walk as the sentence has it: a story is admitted if and only if
\* fewer than 3 admitted stories share its domain and fewer than `limit`
\* stories were admitted before it
RECURSIVE AdmitInTurn(_, _, _)
AdmitInTurn(rest, admitted, limit) ==
  IF rest = <<>> THEN admitted
  ELSE AdmitInTurn(Tail(rest),
                   IF /\ DomainCount(admitted, Head(rest).domain) < 3
                      /\ Len(admitted) < limit
                     THEN Append(admitted, Head(rest)) ELSE admitted,
                   limit)

\* C24: select_stories returns exactly the greedy walk over the filtered,
\* score-sorted list: a story is admitted if and only if fewer than 3
\* already-admitted stories share its domain and fewer than `limit` stories
\* have been admitted before it; no eligible story is skipped.
C24_GreedyWalk ==
  selPc = "done" =>
    selResult = AdmitInTurn(SortByScore(Filtered(selStories)), <<>>, selLimit)

\* the place in the input list of the k-th story of the result
InputPlace(k) == CHOOSE i \in 1..Len(selStories) : selStories[i].id = selResult[k].id

\* C25: select_stories orders candidates by score = points + 2 x comments,
\* descending, and stories with equal score keep their relative order from
\* the input list; the returned list is non-increasing in score.
C25_ScoreOrderStable ==
  selPc = "done" =>
    /\ \A k \in 1..Len(selResult) :
         selResult[k].score = selResult[k].points + 2 * selResult[k].comments
    /\ \A k, m \in 1..Len(selResult) :
         k < m =>
           /\ selResult[k].score >= selResult[m].score
           /\ selResult[k].score = selResult[m].score => InputPlace(k) < InputPlace(m)

\* two stories of equal score came back in their input order, behind a
\* story of higher score that stood after them in the input, and comments
\* counted in a score
C25_Witness ==
  /\ selPc = "done"
  /\ Len(selResult) >= 3
  /\ selResult[2].score = selResult[3].score
  /\ selResult[2].comments > 0
  /\ InputPlace(2) < InputPlace(3)
  /\ InputPlace(3) < InputPlace(1)
  /\ selResult[1].score > selResult[2].score

(***************************************************************************)
(* Properties of the attribution of response lines.                        *)
(***************************************************************************)
\* the files of `now` that `before` did not hold with the same text
ChangedFiles(before, now) ==
  {key \in DOMAIN now : key \notin DOMAIN before \/ now[key] # before[key]}

\* process_stories: a stored line with index k went to stories[k-1], the
\* story numbered k in the prompt of the request that was answered, under
\* that story's id and cache key; nothing else reached the result map or
\* the cache
ProcessAttributesByPrompt ==
  ResponseReceived =>
    /\ \A j \in 1..Len(prLineLog) :
         prLineLog[j] # NoEffect =>
           /\ LineIndex(prLines[j]) \in 1..Len(prStories)
           /\ prReqs[Len(prReqs)].prompt.stories[LineIndex(prLines[j])].n
                = LineIndex(prLines[j])
           /\ prReqs[Len(prReqs)].prompt.stories[LineIndex(prLines[j])].title
                = prStories[LineIndex(prLines[j])].title
           /\ prLineLog[j].id = prStories[LineIndex(prLines[j])].id
           /\ prLineLog[j].key = KeyOf(LineIndex(prLines[j]))
    /\ prEnd = "ok" =>
         \A id \in DOMAIN prRet :
           \E j \in 1..Len(prLineLog) :
             /\ prLineLog[j].hit
             /\ prLineLog[j].id = id
             /\ prStories[LineIndex(prLines[j])].id = id
    /\ \A key \in ChangedFiles(prSnapshot, cache) :
         \E j \in 1..Len(prLineLog) : prLineLog[j].key = key

\* categorize_and_rank_batch: the same with uncached[k-1]
CategorizeAttributesByPrompt ==
  (cgPc = "done" /\ cgEnd = "ok") =>
    /\ \A j \in 1..Len(cgLog) :
         cgLog[j].hit =>
           /\ LineIndex(cgLines[j]) \in 1..Len(cgUncached)
           /\ cgReqs[Len(cgReqs)].prompt[LineIndex(cgLines[j])].n = LineIndex(cgLines[j])
           /\ cgReqs[Len(cgReqs)].prompt[LineIndex(cgLines[j])].title
                = cgUncached[LineIndex(cgLines[j])].title
           /\ cgLog[j].id = cgUncached[LineIndex(cgLines[j])].id
           /\ cgLog[j].key = CategoryCacheKey(cgUncached[LineIndex(cgLines[j])])
    /\ \A id \in DOMAIN cgRet \ DOMAIN CategoryHitsAtStart :
         \E j \in 1..Len(cgLog) : cgLog[j].hit /\ cgLog[j].id = id
    /\ \A key \in ChangedFiles(cgSnapshot, cgFiles) :
         \E j \in 1..Len(cgLog) : cgLog[j].hit /\ cgLog[j].key = key

\* the lines of the translation response that carry the 1-based index k and
\* the translation `trans`
TranslationLinesOf(k, trans) ==
  {j \in 1..Len(trLines) :
     /\ IsDigit(TranslationLineFacts[trLines[j]].first)
     /\ TranslationLineFacts[trLines[j]].index = k
     /\ TranslatedLine(trLines[j]).trans = trans}

\* translate_batch: the same with titles[uncached_idx[k-1]]; a position that
\* was not cached at the start holds the text of a line with its number, and
\* a cache file written by the call holds that text under the key of that
\* title
TranslateAttributesByPrompt ==
  (trPc = "done" /\ trEnd = "ok") =>
    \A k \in 1..Len(trUncached) :
      /\ trReqs[Len(trReqs)].prompt[k].n = k
      /\ trReqs[Len(trReqs)].prompt[k].title = trTitles[trUncached[k]]
      /\ trUncached[k] \in DOMAIN trCached =>
           TranslationLinesOf(k, trCached[trUncached[k]]) # {}
      /\ (k - 1) \in DOMAIN trTranslations =>
           /\ TranslationLinesOf(k, trTranslations[k - 1]) # {}
           /\ TranslationCacheKey(trPrompt, trTitles[trUncached[k]]) \in DOMAIN trFiles

\* C26: a response line with index k is always attributed to the story
\* that was numbered k in the prompt sent by that same call (stories[k-1] in
\* process_stories, uncached[k-1] in categorize_and_rank_batch,
\* titles[uncached_idx[k-1]] in translate_batch); a result is never stored
\* in the result map or in the cache under another story's id or key,
\* whatever mix of cached and uncached stories the batch holds.
C26_LineGoesToStoryOfItsNumber ==
  /\ ProcessAttributesByPrompt
  /\ CategorizeAttributesByPrompt
  /\ TranslateAttributesByPrompt

\* categorize_and_rank_batch on a batch of two with the first story cached:
\* the prompt numbers the second story 1, and the answer's line 1 is stored
\* under the id and the key of the second story of the list
C26_Witness ==
  /\ cgPc = "done"
  /\ cgEnd = "ok"
  /\ Len(cgStories) = 2
  /\ DOMAIN CategoryHitsAtStart = {cgStories[1].id}
  /\ cgUncached = <<cgStories[2]>>
  /\ cgReqs[Len(cgReqs)].prompt[1].title = cgStories[2].title
  /\ \E j \in 1..Len(cgLog) :
       /\ cgLog[j].hit
       /\ LineIndex(cgLines[j]) = 1
       /\ cgLog[j].id = cgStories[2].id
       /\ cgLog[j].key = CategoryCacheKey(cgStories[2])
       /\ cgLog[j].key \in ChangedFiles(cgSnapshot, cgFiles)
  /\ cgStories[2].id \in DOMAIN cgRet


\* ---------------------------------------------------------------------------
\* Properties of the cache round trip of process_stories
\* ---------------------------------------------------------------------------

\* the place in the batch of the story with this id
PlaceOfId(id) == CHOOSE i \in 1..Len(prStories) : prStories[i].id = id

\* C27: after a call the API answered, the cache file of every story of the
\* returned map reads back (_parse_cache_line of what _serialize_result
\* wrote) as the returned result, category, top flag, title and summary
\* alike, and that result is the one of the last response line of the story.
C27_CacheReadsBackReturned ==
  (prPc = "done" /\ prEnd = "ok") =>
    \A id \in DOMAIN prRet :
      LET key == KeyOf(PlaceOfId(id))
      IN /\ key \in DOMAIN cache
         /\ ParsedCacheFile(cache[key]).ok
         /\ ParsedCacheFile(cache[key]).result = prRet[id]
         /\ LinesFor(key) # {}
         /\ prLineLog[LastLineFor(key)].result = prRet[id]

\* ---------------------------------------------------------------------------
\* Properties of the title and summary of a parsed line
\* ---------------------------------------------------------------------------

\* C28: the title and the summary _parse_result_line returns are the texts
\* the line carries after `title=` and `summary=`, the quote characters
\* around them removed and every other character kept, commas and '=' signs
\* included.
C28_TitleAndSummaryVerbatim ==
  plPc = "done" =>
    /\ plRet.ok
    /\ plRet.result.translation = plTitle
    /\ plRet.result.summary = plSummary

\* ---------------------------------------------------------------------------
\* Properties of the top section and of the order of the sections
\* ---------------------------------------------------------------------------

\* the places of the input that hold a flagged story
FlaggedPlaces == {i \in 1..Len(fmStories) : fmStories[i].is_top}

\* the k-th flagged place, counted from the front of the input
FlaggedPlace(k) ==
  CHOOSE i \in FlaggedPlaces : Cardinality({j \in FlaggedPlaces : j <= i}) = k

Least(a, b) == IF a < b THEN a ELSE b

\* C29: the top section is the flagged stories in input order, cut after
\* the tenth; with no flagged story it is the first 10 stories of the input
\* in input order.
C29_TopSectionFlaggedOrFirstTen ==
  fmPc = "done" =>
    LET top == fmRet[1].stories
    IN IF FlaggedPlaces = {}
         THEN /\ Len(top) = Least(Len(fmStories), 10)
              /\ \A k \in 1..Len(top) : top[k] = fmStories[k]
         ELSE /\ Len(top) = Least(Cardinality(FlaggedPlaces), 10)
              /\ \A k \in 1..Len(top) : top[k] = fmStories[FlaggedPlace(k)]

\* more than 10 stories are flagged, the first story of the input is not:
\* the top section starts at a later story and stops at the tenth flagged
C29_Witness ==
  /\ fmPc = "done"
  /\ Cardinality(FlaggedPlaces) > 10
  /\ ~fmStories[1].is_top
  /\ Len(fmRet[1].stories) = 10
  /\ fmRet[1].stories[1] = fmStories[2]

\* the order of the sections as the claim lists it
PrecedenceOrder ==
  << <<"a", "i">>, <<"c", "o", "d", "e">>, <<"d", "a", "t", "a">>,
     <<"s", "c", "i", "e", "n", "c", "e">>,
     <<"s", "e", "c", "u", "r", "i", "t", "y">>,
     <<"d", "e", "s", "i", "g", "n">>,
     <<"b", "u", "s", "i", "n", "e", "s", "s">>,
     <<"w", "o", "r", "k">>, <<"l", "e", "a", "r", "n">>,
     <<"s", "h", "o", "w", "_", "h", "n">>, <<"a", "s", "k", "_", "h", "n">>,
     <<"o", "t", "h", "e", "r">> >>

\* the place of a category in that order, 0 for a category outside it
Precedence(key) ==
  IF \E p \in 1..Len(PrecedenceOrder) : PrecedenceOrder[p] = key
    THEN CHOOSE p \in 1..Len(PrecedenceOrder) : PrecedenceOrder[p] = key
    ELSE 0

\* the ids of the stories the root message shows
RootIds == {fmRet[1].stories[j].id : j \in 1..Len(fmRet[1].stories)}

\* the places of the input whose story is outside the root message and
\* falls in the category
GroupPlaces(key) ==
  {i \in 1..Len(fmStories) :
     fmStories[i].id \notin RootIds /\ SectionOf(fmStories[i]) = key}

\* the j-th place of the group, counted from the front of the input
GroupPlace(key, j) ==
  CHOOSE i \in GroupPlaces(key) :
    Cardinality({m \in GroupPlaces(key) : m <= i}) = j

\* C30: format_digest returns the root message followed by one message for
\* each category of the order ai, code, data, science, security, design,
\* business, work, learn, show_hn, ask_hn, other whose group of stories
\* outside the root is not empty, the messages in that order; the stories of
\* a section are stories of its group in input order, from the first on.
C30_RootThenSectionsInPrecedenceOrder ==
  fmPc = "done" =>
    /\ Len(fmRet) >= 1
    /\ fmRet[1].key = S_top
    /\ \A k \in 2..Len(fmRet) : Precedence(fmRet[k].key) > 0
    /\ \A k \in 2..Len(fmRet) : \A m \in 2..Len(fmRet) :
         k < m => Precedence(fmRet[k].key) < Precedence(fmRet[m].key)
    /\ \A p \in 1..Len(PrecedenceOrder) :
         (\E k \in 2..Len(fmRet) : fmRet[k].key = PrecedenceOrder[p])
           <=> GroupPlaces(PrecedenceOrder[p]) # {}
    /\ \A k \in 2..Len(fmRet) :
         /\ Len(fmRet[k].stories) <= Cardinality(GroupPlaces(fmRet[k].key))
         /\ \A j \in 1..Len(fmRet[k].stories) :
              fmRet[k].stories[j] = fmStories[GroupPlace(fmRet[k].key, j)]

\* two sections follow the root and the first story outside the root falls
\* in the second of them: the sections follow the fixed order, not the input
C30_Witness ==
  /\ fmPc = "done"
  /\ Len(fmRet) >= 3
  /\ \E i \in GroupPlaces(fmRet[3].key) :
       \A m \in GroupPlaces(fmRet[2].key) : i < m
  /\ Len(fmRet[2].stories) >= 2

\* ---------------------------------------------------------------------------
\* Properties of the stories format_digest shows
\* ---------------------------------------------------------------------------

\* the places (message, line) at which the messages show the story
Showings(id) ==
  {<<k, j>> \in (1..Len(fmRet)) \X (1..MaxStories + 1) :
     j <= Len(fmRet[k].stories) /\ fmRet[k].stories[j].id = id}

\* the story at place i is flagged and more than 10 flagged stories stand
\* before it or at it
FlaggedBeyondTen(i) ==
  /\ fmStories[i].is_top
  /\ Cardinality({j \in FlaggedPlaces : j <= i}) > 10

\* the story at place i is among the first 5 of its group
AmongFirstFive(i) ==
  Cardinality({m \in GroupPlaces(SectionOf(fmStories[i])) : m <= i}) <= 5

\* C31: the messages show each story at most once; a story of the top
\* section is in no category section; a flagged story behind the tenth
\* flagged one is shown in the section of its category when it is among the
\* first 5 stories of that section's group.
C31_EachStoryShownAtMostOnce ==
  fmPc = "done" =>
    /\ \A i \in 1..Len(fmStories) : Cardinality(Showings(fmStories[i].id)) <= 1
    /\ \A k \in 2..Len(fmRet) : \A j \in 1..Len(fmRet[k].stories) :
         fmRet[k].stories[j].id \notin RootIds
    /\ \A i \in 1..Len(fmStories) :
         (FlaggedBeyondTen(i) /\ AmongFirstFive(i)
            /\ Precedence(SectionOf(fmStories[i])) > 0) =>
           \E k \in 2..Len(fmRet) :
             /\ fmRet[k].key = SectionOf(fmStories[i])
             /\ \E j \in 1..Len(fmRet[k].stories) :
                  fmRet[k].stories[j] = fmStories[i]

\* a flagged story behind the tenth flagged one is shown in a category
\* section, and the top section is full
C31_Witness ==
  /\ fmPc = "done"
  /\ Len(fmRet[1].stories) = 10
  /\ \E i \in 1..Len(fmStories) :
       /\ FlaggedBeyondTen(i)
       /\ \E k \in 2..Len(fmRet) : \E j \in 1..Len(fmRet[k].stories) :
            fmRet[k].stories[j] = fmStories[i]

\* ---------------------------------------------------------------------------
\* Properties of the selection of generate_digest
\* ---------------------------------------------------------------------------

\* the ids of a list, in order
IdSeq(list) == [i \in 1..Len(list) |-> list[i].id]

\* the stories generate_digest offers after the main selection
Offered == gdShowSelected \o gdAskSelected

\* the places of Offered whose story is new: its id is not in the main
\* selection and not at an earlier place of Offered
NewPlaces ==
  {p \in 1..Len(Offered) :
     /\ Offered[p].id \notin Ids(gdSelected)
     /\ \A q \in 1..(p - 1) : Offered[q].id # Offered[p].id}

\* the j-th new place
NewPlace(j) == CHOOSE p \in NewPlaces : Cardinality({q \in NewPlaces : q <= p}) = j

\* C32: the list generate_digest works on starts with the main selection,
\* unchanged; behind it stand the stories of the two `show` and the two
\* `ask` selections whose id was not yet in the list, each once, in the
\* order show before ask; no other story is added and none is removed.
C32_MainSelectionKeptSpecialsAppended ==
  gdPc # "off" /\ gdPc # "start" =>
    /\ Len(gdShowSelected) <= 2
    /\ Len(gdAskSelected) <= 2
    /\ Len(gdTop) = Len(gdSelected) + Cardinality(NewPlaces)
    /\ SubSeq(IdSeq(gdTop), 1, Len(gdSelected)) = IdSeq(gdSelected)
    /\ gdPc = "selected" => SubSeq(gdTop, 1, Len(gdSelected)) = gdSelected
    /\ \A j \in 1..Cardinality(NewPlaces) :
         gdTop[Len(gdSelected) + j].id = Offered[NewPlace(j)].id
    /\ \A i, j \in (Len(gdSelected) + 1)..Len(gdTop) :
         i # j => gdTop[i].id # gdTop[j].id

\* a `show` story that the main selection holds is skipped and another one
\* is appended
C32_Witness ==
  /\ gdPc = "selected"
  /\ gdSelected # <<>>
  /\ \E p \in 1..Len(gdShowSelected) : gdShowSelected[p].id \in Ids(gdSelected)
  /\ \E p \in 1..Len(gdShowSelected) : gdShowSelected[p].id \notin Ids(gdSelected)
  /\ Len(gdTop) > Len(gdSelected)
  /\ Len(gdTop) < Len(gdSelected) + Len(Offered)

\* ---------------------------------------------------------------------------
\* Properties of categorize_story
\* ---------------------------------------------------------------------------

\* the text is in the other, whatever the case of the other
InAnyCase(text, word) == Contains(Lower(text), word)

\* the table entry matches the story: one of its keywords is in the title
\* or one of its domains is in the domain
EntryMatches(i) ==
  \/ \E k \in 1..Len(CATEGORIES[i].keywords) :
       InAnyCase(csTitle, CATEGORIES[i].keywords[k])
  \/ \E k \in 1..Len(CATEGORIES[i].domains) :
       InAnyCase(csDomain, CATEGORIES[i].domains[k])

\* the entries of the table other than show_hn and ask_hn
PlainEntries ==
  {i \in 1..Len(CATEGORIES) :
     CATEGORIES[i].key \notin {<<"s", "h", "o", "w", "_", "h", "n">>,
                               <<"a", "s", "k", "_", "h", "n">>}}

\* C33: a title with 'show hn' or 'ask hn' in it, in any case, gives
\* show_hn or ask_hn whatever else matches; otherwise the first entry of the
\* table with a keyword in the title or a domain in the domain gives the
\* category; with no such entry the category is "other".
C33_ThreadKindFirstThenTableOrder ==
  csPc = "done" =>
    LET show == InAnyCase(csTitle, <<"s", "h", "o", "w", " ", "h", "n">>)
        ask == InAnyCase(csTitle, <<"a", "s", "k", " ", "h", "n">>)
        hits == {i \in PlainEntries : EntryMatches(i)}
    IN /\ (show \/ ask) =>
            csRet \in {<<"s", "h", "o", "w", "_", "h", "n">>,
                       <<"a", "s", "k", "_", "h", "n">>}
       /\ show => csRet = <<"s", "h", "o", "w", "_", "h", "n">>
       /\ (ask /\ ~show) => csRet = <<"a", "s", "k", "_", "h", "n">>
       /\ (~show /\ ~ask /\ hits # {}) =>
            \E i \in hits : /\ csRet = CATEGORIES[i].key
                            /\ \A j \in hits : i <= j
       /\ (~show /\ ~ask /\ hits = {}) => csRet = <<"o", "t", "h", "e", "r">>

\* an Ask HN title in upper case with a keyword of one category and a
\* domain of another is classified ask_hn
C33_Witness ==
  /\ csPc = "done"
  /\ csRet = <<"a", "s", "k", "_", "h", "n">>
  /\ csTitle[1] = "A" /\ csTitle[2] = "S"
  /\ \E i, j \in PlainEntries :
       /\ i # j
       /\ \E k \in 1..Len(CATEGORIES[i].keywords) :
            InAnyCase(csTitle, CATEGORIES[i].keywords[k])
       /\ \E k \in 1..Len(CATEGORIES[j].domains) :
            InAnyCase(csDomain, CATEGORIES[j].domains[k])

\* a story whose title has a keyword of a later entry and whose domain is a
\* domain of an earlier entry gets the category of the earlier entry
C33_WitnessTableOrder ==
  /\ csPc = "done"
  /\ \E i, j \in PlainEntries :
       /\ i < j
       /\ csRet = CATEGORIES[i].key
       /\ \E k \in 1..Len(CATEGORIES[j].keywords) :
            InAnyCase(csTitle, CATEGORIES[j].keywords[k])
       /\ \A k \in 1..Len(CATEGORIES[i].keywords) :
            ~InAnyCase(csTitle, CATEGORIES[i].keywords[k])

\* ---------------------------------------------------------------------------
\* Properties of the link-back transform of post_thread
\* ---------------------------------------------------------------------------

\* every reply of the thread was posted and got an id
EveryReplyPosted ==
  /\ Len(thPosts) = thMsgs
  /\ \A i \in 2..Len(thPosts) : thPosts[i].id # NoneId

\* C34: edit_main_callback is called only with as many reply ids as reply
\* categories, the ids of the replies that succeeded in posting order; when
\* reply_categories has one entry per reply message, it is called only
\* after every reply succeeded, and its i-th id is the id of the reply of
\* the i-th category.
C34_TransformOnlyWithOneIdPerCategory ==
  \A c \in 1..Len(thCalls) :
    /\ Len(thCalls[c].ids) = Len(thCalls[c].cats)
    /\ thCalls[c].cats = thCats
    /\ thCalls[c].ids = SucceededIds(thPosts, 2)
    /\ Len(thCats) = thMsgs - 1 =>
         /\ EveryReplyPosted
         /\ \A i \in 1..Len(thCats) : thCalls[c].ids[i] = thPosts[i + 1].id

\* the transform was called for a thread of three replies with three
\* categories
C34_Witness ==
  /\ Len(thCalls) = 1
  /\ thMsgs = 4
  /\ Len(thCats) = 3
  /\ EveryReplyPosted
  /\ Len(thCalls[1].ids) = 3

\* ---------------------------------------------------------------------------
\* Properties of _fetch_one over calls that follow one another
\* ---------------------------------------------------------------------------

\* the requests issued for the URL
RequestsFor(url) == {k \in 1..Len(frRequests) : frRequests[k] = url}

\* C35 as stated: over calls of _fetch_one that follow one another every URL
\* is requested at most once; a call that finds the cache file of its URL,
\* be it the empty file a failed fetch or an empty extraction left, issues
\* no request and returns the text of the file; a URL whose file an earlier
\* run left is not requested at all.
C35_AtMostOneRequestPerUrl ==
  /\ \A url \in {ArticleUrlOne, ArticleUrlTwo} :
       /\ Cardinality(RequestsFor(url)) <= 1
       /\ (frPc = "idle" /\ \E k \in 1..Len(frLog) : frLog[k].url = url) =>
            ContentCachePath(url) \in DOMAIN frFiles
  /\ \A k \in 1..Len(frLog) :
       /\ frLog[k].found => ~frLog[k].requested
       /\ \A j \in 1..(k - 1) :
            frLog[j].url = frLog[k].url =>
              /\ frLog[k].found
              /\ frLog[k].ret = frLog[j].ret
  /\ Len(frRequests) = Cardinality({k \in 1..Len(frLog) : frLog[k].requested})
                         + (IF frPc \in FetchOutcomes THEN 1 ELSE 0)

\* the calls for the URL whose write of the cache file raised and left no
\* file
LostWrites(url) ==
  {k \in 1..Len(frLog) : frLog[k].url = url /\ frLog[k].raised /\ frLog[k].file = <<>>}

\* C35: over calls of _fetch_one that follow one another a call that finds
\* the cache file of its URL, be it the empty file a failed fetch or an empty
\* extraction left or the part of a text a failed write left, issues no
\* request and returns the text of the file; a call that finds no file
\* issues one request; a URL is requested once more only after a call whose
\* write of the cache file raised and left no file; a URL whose file an
\* earlier run left is not requested at all.
C35_RequestedAgainOnlyAfterLostWrite ==
  /\ \A url \in {ArticleUrlOne, ArticleUrlTwo} :
       /\ Cardinality(RequestsFor(url)) <= 1 + Cardinality(LostWrites(url))
       /\ (frPc = "idle" /\ \E k \in 1..Len(frLog) :
                               frLog[k].url = url /\ ~frLog[k].raised) =>
            ContentCachePath(url) \in DOMAIN frFiles
  /\ \A k \in 1..Len(frLog) :
       /\ frLog[k].found <=> ~frLog[k].requested
       /\ frLog[k].found => ~frLog[k].raised
       /\ (frLog[k].found /\ \A j \in 1..(k - 1) : frLog[j].url # frLog[k].url) =>
            RequestsFor(frLog[k].url) = {}
       /\ \A j \in 1..(k - 1) :
            frLog[j].url = frLog[k].url =>
              /\ ~frLog[j].raised =>
                   /\ frLog[k].found
                   /\ frLog[k].ret = frLog[j].ret
              /\ (frLog[j].raised /\ frLog[j].file # <<>>) =>
                   /\ frLog[k].found
                   /\ frLog[k].ret = frLog[j].file[1]
              /\ (j = k - 1 /\ frLog[j].file = <<>>) => frLog[k].requested
  /\ Len(frRequests) = Cardinality({k \in 1..Len(frLog) : frLog[k].requested})
                         + (IF frPc \in FetchOutcomes THEN 1 ELSE 0)

\* the write of a fetched text raised and left no file, the next call for
\* the URL requested the page again and its failed fetch left the empty
\* file, and the call after it returned the empty text without a request
C35_Witness ==
  /\ frPc = "idle"
  /\ Len(frLog) >= 3
  /\ frLog[1].outcome = "text" /\ frLog[1].raised /\ frLog[1].file = <<>>
  /\ frLog[2].url = frLog[1].url
  /\ frLog[2].requested /\ ~frLog[2].raised /\ frLog[2].outcome = "failed"
  /\ frLog[3].url = frLog[1].url
  /\ frLog[3].found /\ frLog[3].ret = <<>>
  /\ Cardinality(RequestsFor(frLog[1].url)) = 2

\* ---------------------------------------------------------------------------
\* Properties of the domain select_stories derives
\* ---------------------------------------------------------------------------

\* the host with a leading "www." removed
WithoutLeadingWww(host) ==
  IF StartsWith(host, Www) THEN SubSeq(host, Len(Www) + 1, Len(host)) ELSE host

\* C37: the domain of every selected story is the host of its URL with only
\* a leading "www." removed, a "www." further on in the host kept; a story
\* without URL has the empty domain.
C37_DomainIsHostWithoutLeadingWww ==
  selPc = "done" =>
    \A k \in 1..Len(selResult) :
      selResult[k].domain =
        IF selResult[k].url = <<>> THEN <<>>
        ELSE WithoutLeadingWww(Netloc(selResult[k].url))

\* the same for the stories whose host has no "www." behind its first place
C37_DomainOfPlainHosts ==
  selPc = "done" =>
    \A k \in 1..Len(selResult) :
      Find(WithoutLeadingWww(Netloc(selResult[k].url)), Www) = 0 =>
        selResult[k].domain =
          IF selResult[k].url = <<>> THEN <<>>
          ELSE WithoutLeadingWww(Netloc(selResult[k].url))

\* ---------------------------------------------------------------------------
\* Properties of the texts format_story_lines embeds
\* ---------------------------------------------------------------------------

\* the character as it may stand in markup
EscapedChar(c) ==
  CASE c = "&" -> <<"&", "a", "m", "p", ";">>
    [] c = "<" -> <<"&", "l", "t", ";">>
    [] c = ">" -> <<"&", "g", "t", ";">>
    [] OTHER -> <<c>>

\* the text with each '&', '<' and '>' escaped once
RECURSIVE EscapedText(_)
EscapedText(text) ==
  IF text = <<>> THEN <<>> ELSE EscapedChar(Head(text)) \o EscapedText(Tail(text))

\* the title the story is shown with and its summary
ShownTitle == IF RenderId \in DOMAIN rnTitles THEN rnTitles[RenderId] ELSE rnStory.title

ShownSummary == IF RenderId \in DOMAIN rnSummaries THEN rnSummaries[RenderId] ELSE <<>>

\* the story links to its Hacker News item
ThreadStory == rnStory.category \in {S_show_hn, S_ask_hn}

\* the title and the summary are embedded escaped, each character once
TitleAndSummaryEscaped ==
  /\ \/ rnRet[1] = LinkOpen \o HnUrl(RenderId) \o LinkMiddle
                     \o EscapedText(ShownTitle) \o LinkClose
     \/ \E href \in {rnStory.url, EscapedText(rnStory.url)} :
          rnRet[1] = LinkOpen \o href \o LinkMiddle
                       \o EscapedText(ShownTitle) \o LinkClose
     \/ rnRet[1] = BoldOpen \o EscapedText(ShownTitle) \o BoldClose
  /\ (~ThreadStory /\ ShownSummary # <<>>) =>
       Len(rnRet) = 3 /\ rnRet[2] = EscapedText(ShownSummary)
  /\ (ThreadStory \/ ShownSummary = <<>>) => Len(rnRet) = 2

\* the URL of a link to the article is embedded escaped
LinkUrlEscaped ==
  (~ThreadStory /\ rnStory.url # <<>>) =>
    rnRet[1] = LinkOpen \o EscapedText(rnStory.url) \o LinkMiddle
                 \o EscapedText(ShownTitle) \o LinkClose

\* C36: every story text format_story_lines embeds, the title (original or
\* translated), the summary and the URL of the link, has '&', '<' and '>'
\* escaped, each once; no raw story text reaches the markup.
C36_EveryStoryTextEscaped ==
  rnPc = "done" => TitleAndSummaryEscaped /\ LinkUrlEscaped

\* the same without the URL: title and summary are escaped
C36_TitleAndSummaryEscaped ==
  rnPc = "done" => TitleAndSummaryEscaped

=============================================================================
